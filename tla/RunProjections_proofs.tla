----------------------- MODULE RunProjections_proofs -----------------------
(***************************************************************************)
(* The terminal's views, the host's cards and the index of the runs of a   *)
(* session, for every set of runs, sessions, processes and calls and every *)
(* bound: what is shown is of the selected session and looked at again,    *)
(* navigation goes only to recorded attempts, cards follow the saved       *)
(* attempts and are closed, an index misses no run it was told of, and the *)
(* files that a run's manifest leads to stay whole.                        *)
(***************************************************************************)
EXTENDS RunProjections, Sequences, SequenceTheorems, FiniteSetTheorems, TLAPS

-----------------------------------------------------------------------------
(* The terminal's views: the inductive invariant.                          *)

Place == Session \cup (Run \X Nat)
Sight == [run : Run, runs : BOOLEAN, attempt : Nat]
Phase == {"idle", "loading", "saved", "unavailable"}
Entry == (Run \X Nat) \X Live!Record

LiveTypes ==
    /\ route \in Place
    /\ saved \in [Run -> Sight]
    /\ known \subseteq Run \X Nat
    /\ view \in [owner : Place \cup {None}, phase : Phase, run : Run \cup {None}, seen : Sight \cup {None}]
    /\ ctl \in [gen : Nat, timedOut : BOOLEAN, timer : BOOLEAN, disposed : BOOLEAN]
    /\ op \in [what : {"none", "discover", "read", "nav"}, owner : Place \cup {None},
               run : Run \cup {None}, gen : Nat, sel : Nat, waits : BOOLEAN,
               value : Sight \cup {None, Failed, Live!NotRead(None)}]
    /\ browse \in [pc : {"none", "closed", "reading", "nodes", "attempts", "archive"},
                   owner : Place \cup {None}, seen : Sight \cup {None},
                   bad : SUBSET (Run \X Nat), opening : SUBSET Entry, left : SUBSET Entry]

\* A file keeps the run it is of, and what was read of it is no newer.
Of(r, s) == s.run = r /\ s.attempt <= saved[r].attempt
FilesAreOf == \A r \in Run : saved[r].run = r

\* What is shown is of the owner that was selected last.
Shown ==
    /\ view.owner \in {opened, None}
    /\ view.seen # None =>
        /\ view.seen \in Sight
        /\ Owner[view.seen.run] = view.owner /\ view.run = view.seen.run
    /\ ctl.timer => view.run \in Run
    /\ ctl.disposed => view = Live!NoView /\ ~ctl.timer

\* What is in flight is of this selection or an earlier one; if of this one, it is of the owner
\* shown, and of the run shown if one is.
IsCurrent == Live!Busy /\ op.gen = ctl.gen /\ ~ctl.disposed
InFlight ==
    /\ op.gen <= ctl.gen
    /\ IsCurrent => op.owner = view.owner
    /\ IsCurrent /\ op.what = "discover" => view.seen = None /\ ~ctl.timer
    /\ IsCurrent /\ op.what = "read" /\ view.seen # None => op.run = view.run
    /\ op.what \in {"read", "nav"} =>
        /\ op.run \in Run
        /\ op.value \notin {None, Failed} =>
            op.value \in Sight /\ Of(op.run, op.value) /\ Owner[op.run] = op.owner

\* The browser shows a run of its owner, and reads records of attempts that it has recorded;
\* the output of an attempt only when its detail was whole.
Browsed ==
    /\ browse.pc \in {"nodes", "attempts", "archive"} =>
        browse.seen \in Sight /\ Owner[browse.seen.run] = browse.owner /\ Of(browse.seen.run, browse.seen)
    /\ browse.pc \in {"none", "closed", "reading"} => browse.opening = {}
    /\ \A o \in browse.opening : Owner[o[1][1]] = browse.owner
    /\ \A o \in browse.opening \cup browse.left :
        /\ o[1][2] <= saved[o[1][1]].attempt
        /\ o[2] = "output" => <<o[1], "detail">> \notin torn

LiveSound ==
    /\ LiveTypes /\ FilesAreOf /\ Shown /\ InFlight /\ Browsed
    /\ Live!Refreshes
-----------------------------------------------------------------------------
(* The terminal's views: the steps.                                        *)

\* What the controller does leaves files and browser as they are.
LEMMA BrowsedStays ==
    ASSUME LiveSound, UNCHANGED <<saved, torn, browse>>
    PROVE  Browsed' /\ FilesAreOf'
BY DEF LiveSound, Browsed, FilesAreOf, Of

LEMMA SelectSound == ASSUME LiveSound, Live!Select PROVE LiveSound'
<1>1. LiveTypes /\ InFlight /\ Browsed' /\ FilesAreOf'
    BY BrowsedStays DEF LiveSound, Live!Select
<1>2. /\ ctl' = [gen |-> ctl.gen + 1, timedOut |-> FALSE, timer |-> FALSE, disposed |-> FALSE]
      /\ opened' = route /\ ~ctl.disposed
      /\ ctl.gen \in Nat /\ ctl'.gen \in Nat /\ op.gen \in Nat /\ route \in Place
      /\ UNCHANGED <<route, saved, known, browse>>
    <2> DEFINE k == ctl.gen + 1
    <2>1. ctl.gen \in Nat /\ k \in Nat /\ op.gen \in Nat /\ route \in Place
        BY <1>1 DEF LiveTypes
    <2>2. ~ctl.disposed /\ opened' = route /\ UNCHANGED <<route, saved, known, browse>> /\ ctl' = [ctl EXCEPT !.gen = k, !.timedOut = FALSE, !.timer = FALSE]
        BY DEF Live!Select
    <2> HIDE DEF k
    <2>3. ctl' = [gen |-> k, timedOut |-> FALSE, timer |-> FALSE, disposed |-> FALSE]
        BY <1>1, <2>1, <2>2 DEF LiveTypes
    <2> QED
        BY <2>1, <2>2, <2>3 DEF k
<1>3. CASE /\ ~Live!Busy
           /\ view' = [owner |-> route, phase |-> "loading", run |-> None, seen |-> None]
           /\ op' = [what |-> "discover", owner |-> route, run |-> None, gen |-> ctl'.gen, sel |-> 0,
                     waits |-> TRUE, value |-> None]
    <2>1. LiveTypes'
        BY <1>1, <1>2, <1>3 DEF LiveTypes, Phase
    <2>2. Shown' /\ InFlight' /\ Live!Refreshes'
        BY <1>1, <1>2, <1>3 DEF Shown, InFlight, IsCurrent, Live!Busy, Live!Refreshes
    <2> QED
        BY <1>1, <2>1, <2>2 DEF LiveSound
<1>4. CASE /\ Live!Busy /\ UNCHANGED op
           /\ view' = [owner |-> route, phase |-> "unavailable", run |-> None, seen |-> None]
    <2>1. LiveTypes'
        BY <1>1, <1>2, <1>4 DEF LiveTypes, Phase
    <2>2. op.gen < ctl'.gen
        BY <1>1, <1>2 DEF InFlight
    <2>3. Shown' /\ InFlight' /\ Live!Refreshes'
        BY <1>1, <1>2, <1>4, <2>2 DEF Shown, InFlight, IsCurrent, Live!Busy, Live!Refreshes, Live!Select, Of
    <2> QED
        BY <1>1, <2>1, <2>3 DEF LiveSound
<1> QED
    BY <1>2, <1>3, <1>4 DEF Live!Select, Live!Publish, Live!Read, Live!NoOp

LEMMA ShowDialogSound == ASSUME LiveSound, Live!ShowDialog PROVE LiveSound'
BY DEF LiveSound, Live!ShowDialog, LiveTypes, FilesAreOf, Shown, InFlight, IsCurrent, Live!Busy, Browsed, Of,
   Live!Refreshes

LEMMA TakesSound == ASSUME LiveSound, Live!Takes PROVE LiveSound'
<1>1. LiveTypes /\ InFlight /\ Shown /\ Live!Refreshes /\ FilesAreOf /\ Browsed' /\ FilesAreOf'
    BY BrowsedStays DEF LiveSound, Live!Takes
<1>2. PICK v \in {Failed} \cup (IF op.what = "discover" THEN {Live!NotRead(r) : r \in Live!Found(op.owner)}
                                ELSE IF Owner[op.run] = op.owner THEN {saved[op.run]} ELSE {}) :
          op' = [op EXCEPT !.value = v]
    BY DEF Live!Takes
<1>3. v \in Sight \cup {None, Failed, Live!NotRead(None)}
    <2>1. CASE op.what = "discover"
        <3>1. Live!Found(op.owner) \subseteq Run \cup {None}
            BY DEF Live!Found
        <3>2. \A r \in Run : Live!NotRead(r) \in Sight
            BY DEF Live!NotRead, Sight
        <3> QED
            BY <1>2, <2>1, <3>1, <3>2
    <2>2. CASE op.what # "discover"
        BY <1>1, <1>2, <2>2 DEF InFlight, LiveTypes, Live!Takes, Live!Busy
    <2> QED
        BY <2>1, <2>2
<1>4. /\ op'.what = op.what /\ op'.owner = op.owner /\ op'.run = op.run /\ op'.gen = op.gen
      /\ op'.sel = op.sel /\ op'.waits = op.waits /\ op'.value = v
    BY <1>1, <1>2 DEF LiveTypes
<1>5. LiveTypes'
    BY <1>1, <1>2, <1>3 DEF LiveTypes, Live!Takes
<1>6. op.what \in {"read", "nav"} /\ v \notin {None, Failed} =>
          v \in Sight /\ Of(op.run, v) /\ Owner[op.run] = op.owner
    BY <1>1, <1>2 DEF InFlight, LiveTypes, Of, FilesAreOf, Sight
<1>7. Shown' /\ InFlight' /\ Live!Refreshes'
    BY <1>1, <1>4, <1>6 DEF Live!Takes, Shown, InFlight, IsCurrent, Live!Busy, Live!Refreshes, Of
<1> QED
    BY <1>1, <1>5, <1>7 DEF LiveSound

LEMMA IgnoredSound == ASSUME LiveSound, Live!Ignored PROVE LiveSound'
<1>1. LiveTypes /\ InFlight /\ Shown /\ Live!Refreshes /\ Browsed' /\ FilesAreOf'
    BY BrowsedStays DEF LiveSound, Live!Ignored
<1>2. op' = [what |-> "none", owner |-> None, run |-> None, gen |-> 0, sel |-> 0,
             waits |-> FALSE, value |-> None]
      /\ UNCHANGED <<route, saved, known, view, ctl, browse, opened>>
    BY DEF Live!Ignored, Live!NoOp
<1>3. LiveTypes'
    BY <1>1, <1>2 DEF LiveTypes
<1>4. Shown' /\ InFlight'
    BY <1>1, <1>2 DEF LiveTypes, Shown, InFlight, IsCurrent, Live!Busy
<1>5. Live!Refreshes'
    <2>1. op.what = "read" /\ op.waits /\ op.gen = ctl.gen => ctl.disposed
        BY <1>1 DEF Live!Ignored, Live!Awaited, Live!Current, InFlight, IsCurrent
    <2> QED
        BY <1>1, <1>2, <2>1 DEF Live!Refreshes, Shown, Live!NoView
<1> QED
    BY <1>1, <1>3, <1>4, <1>5 DEF LiveSound

\* An answer that is awaited is of this selection.
LEMMA Awaits == ASSUME InFlight, Live!Busy, Live!Awaited
                PROVE  IsCurrent /\ op.owner = view.owner /\ op.gen = ctl.gen /\ ~ctl.disposed
BY DEF InFlight, Live!Awaited, Live!Current, IsCurrent

LEMMA DiscoveredSound == ASSUME LiveSound, Live!Discovered PROVE LiveSound'
<1>1. LiveTypes /\ InFlight /\ Shown /\ Live!Refreshes /\ Browsed' /\ FilesAreOf'
    BY BrowsedStays DEF LiveSound, Live!Discovered
<1>2. /\ op.what = "discover" /\ op.owner = view.owner /\ op.gen = ctl.gen /\ ~ctl.disposed
      /\ view.seen = None /\ ~ctl.timer
    BY <1>1, Awaits DEF Live!Discovered, Live!Settles, InFlight
<1>3. CASE \E phase \in {"unavailable", "saved"} :
              /\ op' = Live!NoOp
              /\ view' = [owner |-> op.owner, phase |-> phase, run |-> None, seen |-> None]
    <2>1. LiveTypes'
        BY <1>1, <1>3 DEF LiveTypes, Live!Discovered, Phase, Live!NoOp
    <2>2. Shown' /\ InFlight' /\ Live!Refreshes'
        BY <1>1, <1>2, <1>3 DEF Live!Discovered, Live!NoOp, LiveTypes, Shown, InFlight, IsCurrent, Live!Busy,
           Live!Refreshes
    <2> QED
        BY <1>1, <2>1, <2>2 DEF LiveSound
<1>4. CASE /\ op.value \in {Live!NotRead(r) : r \in Run} /\ UNCHANGED view
           /\ op' = [what |-> "read", owner |-> op.owner, run |-> op.value.run, gen |-> op.gen,
                     sel |-> 0, waits |-> TRUE, value |-> None]
    <2>1. op.value.run \in Run
        BY <1>4 DEF Live!NotRead
    <2>2. LiveTypes'
        BY <1>1, <1>4, <2>1 DEF LiveTypes, Live!Discovered
    <2>3. Shown' /\ InFlight' /\ Live!Refreshes'
        BY <1>1, <1>2, <1>4, <2>1 DEF Live!Discovered, LiveTypes, Shown, InFlight, IsCurrent, Live!Busy,
           Live!Refreshes
    <2> QED
        BY <1>1, <2>2, <2>3 DEF LiveSound
<1> QED
    BY <1>3, <1>4 DEF Live!Discovered, Live!Publish, Live!Read, Live!NoOp

LEMMA RefreshedSound == ASSUME LiveSound, Live!Refreshed PROVE LiveSound'
<1>1. LiveTypes /\ InFlight /\ Shown /\ Live!Refreshes /\ Browsed' /\ FilesAreOf'
    BY BrowsedStays DEF LiveSound, Live!Refreshed
<1>2. /\ op.what = "read" /\ op.owner = view.owner /\ op.gen = ctl.gen /\ ~ctl.disposed
      /\ op.run \in Run /\ op.value # None
      /\ view.seen # None => op.run = view.run
    BY <1>1, Awaits DEF Live!Refreshed, Live!Settles, InFlight
<1>3. op' = [what |-> "none", owner |-> None, run |-> None, gen |-> 0, sel |-> 0,
             waits |-> FALSE, value |-> None]
      /\ UNCHANGED <<route, saved, known, browse, opened>>
    BY DEF Live!Refreshed, Live!NoOp
<1>4. CASE /\ op.value = Failed /\ UNCHANGED ctl
           /\ view' = [owner |-> op.owner, phase |-> "unavailable", run |-> op.run, seen |-> view.seen]
    <2>1. LiveTypes'
        BY <1>1, <1>2, <1>3, <1>4 DEF LiveTypes, Phase
    <2>2. Shown' /\ InFlight' /\ Live!Refreshes'
        BY <1>1, <1>2, <1>3, <1>4 DEF LiveTypes, Shown, InFlight, IsCurrent, Live!Busy, Live!Refreshes
    <2> QED
        BY <1>1, <2>1, <2>2 DEF LiveSound
<1>5. CASE /\ op.value # Failed
           /\ view' = [owner |-> op.owner, phase |-> "saved", run |-> op.run, seen |-> op.value]
           /\ ctl' = [ctl EXCEPT !.timer = op.value.runs /\ ~ctl.timedOut]
    <2>1. op.value \in Sight /\ op.value.run = op.run /\ Owner[op.run] = op.owner
        BY <1>1, <1>2, <1>5 DEF InFlight, Of
    <2>2. /\ op.value.runs \in BOOLEAN
          /\ ctl' = [gen |-> ctl.gen, timedOut |-> ctl.timedOut, disposed |-> FALSE,
                     timer |-> op.value.runs /\ ~ctl.timedOut]
        BY <1>1, <1>2, <1>5, <2>1 DEF LiveTypes, Sight
    <2>3. LiveTypes'
        BY <1>1, <1>2, <1>3, <1>5, <2>1, <2>2 DEF LiveTypes, Phase
    <2>4. Shown' /\ InFlight'
        BY <1>1, <1>2, <1>3, <1>5, <2>1, <2>2 DEF LiveTypes, Shown, InFlight, IsCurrent, Live!Busy
    <2>5. Live!Refreshes'
        BY <1>1, <1>5, <2>1, <2>2 DEF LiveTypes, Live!Refreshes
    <2> QED
        BY <1>1, <2>3, <2>4, <2>5 DEF LiveSound
<1> QED
    BY <1>4, <1>5 DEF Live!Refreshed, Live!Publish

LEMMA TimerFiresSound == ASSUME LiveSound, Live!TimerFires PROVE LiveSound'
<1>1. LiveTypes /\ InFlight /\ Shown /\ Live!Refreshes /\ Browsed' /\ FilesAreOf'
    BY BrowsedStays DEF LiveSound, Live!TimerFires
<1>2. /\ ctl' = [gen |-> ctl.gen, timedOut |-> ctl.timedOut, timer |-> FALSE, disposed |-> ctl.disposed]
      /\ view.run \in Run /\ ~ctl.disposed
      /\ UNCHANGED <<route, saved, known, browse, opened>>
    BY <1>1 DEF LiveTypes, Live!TimerFires, Shown
<1>3. CASE /\ Live!Busy /\ UNCHANGED op
           /\ view' = [owner |-> view.owner, phase |-> "unavailable", run |-> view.run, seen |-> view.seen]
    <2>1. LiveTypes'
        BY <1>1, <1>2, <1>3 DEF LiveTypes, Phase
    <2>2. Shown' /\ InFlight' /\ Live!Refreshes'
        BY <1>1, <1>2, <1>3 DEF LiveTypes, Shown, InFlight, IsCurrent, Live!Busy, Live!Refreshes, Of
    <2> QED
        BY <1>1, <2>1, <2>2 DEF LiveSound
<1>4. CASE /\ ~Live!Busy /\ UNCHANGED view
           /\ op' = [what |-> "read", owner |-> view.owner, run |-> view.run, gen |-> ctl.gen,
                     sel |-> 0, waits |-> TRUE, value |-> None]
    <2>1. LiveTypes'
        BY <1>1, <1>2, <1>4 DEF LiveTypes
    <2>2. Shown' /\ InFlight' /\ Live!Refreshes'
        BY <1>1, <1>2, <1>4 DEF LiveTypes, Shown, InFlight, IsCurrent, Live!Busy, Live!Refreshes, Of
    <2> QED
        BY <1>1, <2>1, <2>2 DEF LiveSound
<1> QED
    BY <1>3, <1>4 DEF Live!TimerFires, Live!Unavailable, Live!Publish, Live!Read, Live!NoOp

LEMMA TimesOutSound == ASSUME LiveSound, Live!TimesOut PROVE LiveSound'
<1>1. LiveTypes /\ InFlight /\ Shown /\ Live!Refreshes /\ Browsed' /\ FilesAreOf'
    BY BrowsedStays DEF LiveSound, Live!TimesOut
<1>2. /\ op' = [what |-> op.what, owner |-> op.owner, run |-> op.run, gen |-> op.gen, sel |-> op.sel,
                waits |-> FALSE, value |-> op.value]
      /\ ctl' = [gen |-> ctl.gen, timedOut |-> ctl.timedOut \/ op.gen = ctl.gen,
                 timer |-> ctl.timer, disposed |-> ctl.disposed]
      /\ UNCHANGED <<route, saved, known, browse, opened>>
      /\ Live!Busy
    BY <1>1 DEF LiveTypes, Live!TimesOut
<1>4. CASE UNCHANGED view
    <2>1. LiveTypes'
        BY <1>1, <1>2, <1>4 DEF LiveTypes
    <2>2. Shown' /\ InFlight' /\ Live!Refreshes'
        BY <1>1, <1>2, <1>4 DEF LiveTypes, Shown, InFlight, IsCurrent, Live!Busy, Live!Refreshes, Of
    <2> QED
        BY <1>1, <2>1, <2>2 DEF LiveSound
<1>5. CASE /\ op.what = "read" /\ Live!Awaited
           /\ view' = [owner |-> view.owner, phase |-> "unavailable", run |-> op.run, seen |-> view.seen]
    <2>1. LiveTypes' /\ op.run \in Run
        BY <1>1, <1>2, <1>5 DEF LiveTypes, Phase, InFlight
    <2>2. IsCurrent /\ ~ctl.disposed
        BY <1>1, <1>2, <1>5, Awaits
    <2>3. Shown' /\ InFlight' /\ Live!Refreshes'
        BY <1>1, <1>2, <1>5, <2>1, <2>2 DEF LiveTypes, Shown, InFlight, IsCurrent, Live!Busy, Live!Refreshes, Of
    <2> QED
        BY <1>1, <2>1, <2>3 DEF LiveSound
<1>6. CASE /\ op.what = "discover" /\ Live!Awaited
           /\ view' = [owner |-> op.owner, phase |-> "unavailable", run |-> None, seen |-> None]
    <2>1. LiveTypes'
        BY <1>1, <1>2, <1>6 DEF LiveTypes, Phase
    <2>2. IsCurrent /\ ~ctl.disposed /\ op.owner = view.owner /\ ~ctl.timer
        BY <1>1, <1>2, <1>6, Awaits DEF InFlight
    <2>3. Shown' /\ InFlight' /\ Live!Refreshes'
        BY <1>1, <1>2, <1>6, <2>2 DEF LiveTypes, Shown, InFlight, IsCurrent, Live!Busy, Live!Refreshes, Of
    <2> QED
        BY <1>1, <2>1, <2>3 DEF LiveSound
<1> QED
    BY <1>1, <1>4, <1>5, <1>6 DEF LiveTypes, Live!TimesOut, Live!Unavailable, Live!Publish, Live!Busy

LEMMA DisposeSound == ASSUME LiveSound, Live!Dispose PROVE LiveSound'
<1>1. LiveTypes /\ InFlight /\ Browsed' /\ FilesAreOf'
    BY BrowsedStays DEF LiveSound, Live!Dispose
<1>2. /\ ctl' = [gen |-> ctl.gen + 1, timedOut |-> ctl.timedOut, timer |-> FALSE, disposed |-> TRUE]
      /\ ctl.gen \in Nat /\ ctl'.gen \in Nat
    <2> DEFINE k == ctl.gen + 1
    <2>1. ctl.gen \in Nat /\ k \in Nat
        BY <1>1 DEF LiveTypes
    <2>2. ctl' = [ctl EXCEPT !.disposed = TRUE, !.gen = k, !.timer = FALSE]
        BY DEF Live!Dispose
    <2> HIDE DEF k
    <2>3. ctl' = [gen |-> k, timedOut |-> ctl.timedOut, timer |-> FALSE, disposed |-> TRUE]
        BY <1>1, <2>1, <2>2 DEF LiveTypes
    <2> QED
        BY <2>1, <2>3 DEF k
<1>3. view' = [owner |-> None, phase |-> "idle", run |-> None, seen |-> None]
      /\ UNCHANGED <<route, saved, known, op, browse, opened>>
    BY DEF Live!Dispose, Live!NoView
<1>4. LiveTypes'
    BY <1>1, <1>2, <1>3 DEF LiveTypes, Phase
<1>5. Shown' /\ InFlight' /\ Live!Refreshes'
    BY <1>1, <1>2, <1>3 DEF LiveTypes, Shown, InFlight, IsCurrent, Live!Busy, Live!NoView, Live!Refreshes, Of
<1> QED
    BY <1>1, <1>4, <1>5 DEF LiveSound

LEMMA EnterSound == ASSUME LiveSound, Live!Enter PROVE LiveSound'
<1>1. LiveTypes /\ InFlight /\ Shown /\ Live!Refreshes /\ Browsed' /\ FilesAreOf'
    BY BrowsedStays DEF LiveSound, Live!Enter
<1>2. /\ op' = [what |-> "nav", owner |-> view.owner, run |-> view.run, gen |-> ctl.gen,
                sel |-> view.seen.attempt, waits |-> TRUE, value |-> None]
      /\ UNCHANGED <<route, saved, known, view, ctl, browse, opened>>
      /\ view.seen \in Sight /\ view.run = view.seen.run /\ ~Live!Busy
    BY <1>1 DEF Live!Enter, Live!Read, Live!NoOp, Shown
<1>3. view.run \in Run /\ view.seen.attempt \in Nat
    BY <1>2 DEF Sight
<1>4. LiveTypes'
    BY <1>1, <1>2, <1>3 DEF LiveTypes
<1>5. Shown' /\ InFlight' /\ Live!Refreshes'
    BY <1>1, <1>2, <1>3 DEF LiveTypes, Shown, InFlight, IsCurrent, Live!Busy, Live!Refreshes
<1> QED
    BY <1>1, <1>4, <1>5 DEF LiveSound

LEMMA NavigatesSound == ASSUME LiveSound, Live!Navigates PROVE LiveSound'
<1>1. LiveTypes /\ InFlight /\ Shown /\ Live!Refreshes /\ Browsed' /\ FilesAreOf'
    BY BrowsedStays DEF LiveSound, Live!Navigates
<1>2. op' = [what |-> "none", owner |-> None, run |-> None, gen |-> 0, sel |-> 0,
             waits |-> FALSE, value |-> None]
      /\ UNCHANGED <<saved, known, view, ctl, browse, opened>>
      /\ op.what = "nav"
    BY DEF Live!Navigates, Live!NoOp, Live!Settles
<1>3. route' \in Place
    BY <1>1 DEF Live!Navigates, Live!Settles, LiveTypes, InFlight, Place
<1>4. LiveTypes'
    BY <1>1, <1>2, <1>3 DEF LiveTypes
<1>5. Shown' /\ InFlight' /\ Live!Refreshes'
    BY <1>1, <1>2 DEF LiveTypes, Shown, InFlight, IsCurrent, Live!Busy, Live!Refreshes
<1> QED
    BY <1>1, <1>4, <1>5 DEF LiveSound

-----------------------------------------------------------------------------
(* The files, and the user.                                                *)

LEMMA SaveSound == ASSUME LiveSound, NEW r \in Run, Live!Save(r) PROVE LiveSound'
<1>1. LiveTypes /\ InFlight /\ Shown /\ Live!Refreshes /\ Browsed /\ FilesAreOf
    BY DEF LiveSound
<1>2. PICK n \in Nat, b \in BOOLEAN :
          /\ saved[r].attempt <= n
          /\ saved' = [saved EXCEPT ![r] = [run |-> r, runs |-> b, attempt |-> n]]
    <2>1. saved[r] \in Sight /\ saved[r].run = r /\ saved \in [Run -> Sight]
        BY <1>1 DEF LiveTypes, FilesAreOf
    <2> DEFINE k == saved[r].attempt + 1
    <2>2. k \in Nat /\ saved[r].attempt \in Nat /\ saved[r].attempt <= k
        BY <2>1 DEF Sight
    <2>3. \/ saved' = [saved EXCEPT ![r].attempt = k, ![r].runs = TRUE]
          \/ saved' = [saved EXCEPT ![r].runs = FALSE]
        BY DEF Live!Save
    <2> HIDE DEF k
    <2>4. \/ saved' = [saved EXCEPT ![r] = [run |-> r, runs |-> TRUE, attempt |-> k]]
          \/ saved' = [saved EXCEPT ![r] = [run |-> r, runs |-> FALSE, attempt |-> saved[r].attempt]]
        BY <2>1, <2>2, <2>3 DEF Sight
    <2> DEFINE Kept(n, b) == /\ saved[r].attempt <= n
                             /\ saved' = [saved EXCEPT ![r] = [run |-> r, runs |-> b, attempt |-> n]]
    <2>5. Kept(k, TRUE) \/ Kept(saved[r].attempt, FALSE)
        BY <2>2, <2>4
    <2> HIDE DEF Kept
    <2>6. \E n \in Nat, b \in BOOLEAN : Kept(n, b)
        BY <2>2, <2>5
    <2> QED
        BY <2>6 DEF Kept
<1>3. /\ saved' \in [Run -> Sight] /\ FilesAreOf'
      /\ \A q \in Run : /\ saved[q].attempt \in Nat /\ saved'[q].attempt \in Nat
                        /\ saved[q].attempt <= saved'[q].attempt
    BY <1>1, <1>2 DEF LiveTypes, Sight, FilesAreOf
<1>4. UNCHANGED <<route, known, view, ctl, op, browse, torn, opened>>
    BY DEF Live!Save
<1>5. LiveTypes'
    BY <1>1, <1>3, <1>4 DEF LiveTypes
<1>6. \A q \in Run, s \in Sight : Of(q, s) => Of(q, s)'
    BY <1>3 DEF Of, Sight
<1>7. Shown' /\ InFlight' /\ Live!Refreshes'
    BY <1>1, <1>4, <1>6 DEF LiveTypes, Shown, InFlight, IsCurrent, Live!Busy, Live!Refreshes
<1>8. Browsed'
    <2>1. \A o \in Entry : o[1][2] <= saved[o[1][1]].attempt => o[1][2] <= saved'[o[1][1]].attempt
        BY <1>3 DEF Entry
    <2>2. browse.opening \cup browse.left \subseteq Entry
        BY <1>1 DEF LiveTypes
    <2>3. \A s \in Sight : Of(s.run, s) => Of(s.run, s)'
        BY <1>6 DEF Sight
    <2> QED
        BY <1>1, <1>4, <2>1, <2>2, <2>3 DEF Browsed
<1> QED
    BY <1>3, <1>5, <1>7, <1>8 DEF LiveSound

LEMMA MoveSound == ASSUME LiveSound, Live!Move PROVE LiveSound'
<1>1. LiveTypes /\ InFlight /\ Shown /\ Live!Refreshes /\ Browsed' /\ FilesAreOf'
    BY BrowsedStays DEF LiveSound, Live!Move
<1>2. LiveTypes'
    BY <1>1 DEF Live!Move, LiveTypes, Place
<1>3. Shown' /\ InFlight' /\ Live!Refreshes'
    BY <1>1 DEF Live!Move, LiveTypes, Shown, InFlight, IsCurrent, Live!Busy, Live!Refreshes, Of
<1> QED
    BY <1>1, <1>2, <1>3 DEF LiveSound

-----------------------------------------------------------------------------
(* The browser.                                                            *)

Browser == [pc : {"none", "closed", "reading", "nodes", "attempts", "archive"},
            owner : Place \cup {None}, seen : Sight \cup {None},
            bad : SUBSET (Run \X Nat), opening : SUBSET Entry, left : SUBSET Entry]

\* A browser x that shows a run of its owner and reads what was recorded.
BrowserFits(x) ==
    /\ x.pc \in {"nodes", "attempts", "archive"} =>
        x.seen \in Sight /\ Owner[x.seen.run] = x.owner /\ Of(x.seen.run, x.seen)
    /\ x.pc \in {"none", "closed", "reading"} => x.opening = {}
    /\ \A o \in x.opening : Owner[o[1][1]] = x.owner
    /\ \A o \in x.opening \cup x.left :
        /\ o[1][2] <= saved[o[1][1]].attempt
        /\ o[2] = "output" => <<o[1], "detail">> \notin torn

LEMMA FitsNow == ASSUME LiveSound PROVE browse \in Browser /\ BrowserFits(browse)
BY DEF LiveSound, LiveTypes, Browsed, BrowserFits, Browser

LEMMA BrowseSound ==
    ASSUME LiveSound, NEW x \in Browser, BrowserFits(x), route' \in Place, Live!Browse(x)
    PROVE  LiveSound'
<1>1. browse' = x /\ UNCHANGED <<saved, readable, known, view, ctl, op, dialog, torn, opened, moves>>
    BY DEF Live!Browse
<1>2. LiveTypes' /\ FilesAreOf'
    BY <1>1 DEF LiveSound, LiveTypes, FilesAreOf, Browser
<1>3. Shown' /\ InFlight' /\ Live!Refreshes'
    BY <1>1 DEF LiveSound, Shown, InFlight, IsCurrent, Live!Busy, Live!Refreshes, Of
<1>4. Browsed'
    BY <1>1 DEF BrowserFits, Browsed, Of
<1> QED
    BY <1>2, <1>3, <1>4 DEF LiveSound

LEMMA GoneFits ==
    ASSUME NEW x \in Browser, BrowserFits(x)
    PROVE  Live!Gone(x) \in Browser /\ BrowserFits(Live!Gone(x))
<1>1. Live!Gone(x) = [pc |-> "closed", owner |-> None, seen |-> None, bad |-> {}, opening |-> {},
                      left |-> x.left \cup x.opening]
    <2> DEFINE all == x.left \cup x.opening
    <2>1. Live!Gone(x) = [Live!NoBrowse EXCEPT !.left = all]
        BY DEF Live!Gone
    <2> HIDE DEF all
    <2>2. Live!Gone(x) = [pc |-> "closed", owner |-> None, seen |-> None, bad |-> {}, opening |-> {},
                          left |-> all]
        BY <2>1 DEF Live!NoBrowse
    <2> QED
        BY <2>2 DEF all
<1>2. x.left \in SUBSET Entry /\ x.opening \in SUBSET Entry
    BY DEF Browser
<1>3. Live!Gone(x) \in Browser
    BY <1>1, <1>2 DEF Browser
<1>4. BrowserFits(Live!Gone(x))
    BY <1>1, <1>2 DEF BrowserFits
<1> QED
    BY <1>3, <1>4

LEMMA OpenRunsSound == ASSUME LiveSound, Live!OpenRuns \/ Live!RunsRead \/ Live!Escape PROVE LiveSound'
<1>1. browse \in Browser /\ BrowserFits(browse) /\ route' = route /\ route \in Place /\ LiveTypes /\ FilesAreOf
    BY FitsNow DEF LiveSound, LiveTypes, Live!OpenRuns, Live!RunsRead, Live!Escape
<1>2. CASE Live!OpenRuns
    <2> DEFINE x == [browse EXCEPT !.pc = "reading", !.owner = route]
    <2>1. x \in Browser /\ x.pc = "reading" /\ x.opening = {} /\ x.left = browse.left /\ browse.pc = "closed"
        BY <1>1, <1>2 DEF Browser, BrowserFits, Live!OpenRuns
    <2>2. BrowserFits(x)
        BY <1>1, <2>1 DEF BrowserFits
    <2> QED
        BY <1>1, <1>2, <2>1, <2>2, BrowseSound DEF Live!OpenRuns
<1>3. CASE Live!RunsRead
    <2>1. CASE Live!Browse(Live!Gone(browse))
        BY <1>1, <2>1, GoneFits, BrowseSound
    <2>2. ASSUME NEW r \in Live!Found(browse.owner) \ {None}, Owner[r] = browse.owner, browse.pc = "reading",
                 Live!Browse([browse EXCEPT !.pc = "nodes", !.seen = saved[r]])
          PROVE  LiveSound'
        <3> DEFINE x == [browse EXCEPT !.pc = "nodes", !.seen = saved[r]]
        <3>1. r \in Run
            BY <2>2 DEF Live!Found
        <3>2. saved[r] \in Sight /\ saved[r].run = r /\ saved[r].attempt \in Nat
            BY <1>1, <3>1 DEF LiveTypes, FilesAreOf, Sight
        <3>3. /\ x \in Browser /\ x.pc = "nodes" /\ x.seen = saved[r] /\ x.owner = browse.owner
              /\ x.opening = browse.opening /\ x.left = browse.left
            BY <1>1, <3>2 DEF Browser
        <3>4. BrowserFits(x)
            BY <1>1, <2>2, <3>2, <3>3 DEF BrowserFits, Of
        <3> QED
            BY <1>1, <2>2, <3>3, <3>4, BrowseSound
    <2> QED
        BY <1>3, <2>1, <2>2 DEF Live!RunsRead
<1>4. CASE Live!Escape
    BY <1>1, <1>4, GoneFits, BrowseSound DEF Live!Escape
<1> QED
    BY <1>2, <1>3, <1>4

LEMMA ShowsSound ==
    ASSUME LiveSound, Live!ShowVisible \/ Live!ShowArchived \/ Live!ArchiveRead
    PROVE  LiveSound'
<1>1. browse \in Browser /\ BrowserFits(browse) /\ route' = route /\ route \in Place
    BY FitsNow DEF LiveSound, LiveTypes, Live!ShowVisible, Live!ShowArchived, Live!ArchiveRead
<1>2. PICK shows \in {"nodes", "attempts", "archive"} :
          browse.pc \in {"nodes", "archive"} /\ Live!Browse([browse EXCEPT !.pc = shows])
    BY DEF Live!ShowVisible, Live!ShowArchived, Live!ArchiveRead
<1> DEFINE x == [browse EXCEPT !.pc = shows]
<1>3. /\ x \in Browser /\ x.pc = shows /\ x.seen = browse.seen /\ x.owner = browse.owner
      /\ x.opening = browse.opening /\ x.left = browse.left
    BY <1>1 DEF Browser
<1>4. BrowserFits(x)
    BY <1>1, <1>2, <1>3 DEF BrowserFits
<1> QED
    BY <1>1, <1>2, <1>3, <1>4, BrowseSound

\* The terminal goes to an attempt c, with the browser x as it is then.
LEMMA NavigateSound ==
    ASSUME LiveSound, NEW x \in Browser, BrowserFits(x), NEW c \in Place, Live!Navigate(x, c)
    PROVE  LiveSound'
<1>1. route' = c
    BY DEF Live!Navigate
<1>2. CASE Live!Browse(Live!Gone(x))
    BY <1>1, <1>2, GoneFits, BrowseSound
<1>3. CASE Live!Browse(x)
    BY <1>1, <1>3, BrowseSound
<1> QED
    BY <1>2, <1>3 DEF Live!Navigate

\* What the browser reads is replaced by o and l.
LEMMA ReadingFits ==
    ASSUME NEW x \in Browser, BrowserFits(x), NEW o \in SUBSET Entry, NEW l \in SUBSET Entry,
           NEW b \in SUBSET (Run \X Nat),
           x.pc \in {"none", "closed", "reading"} => o = {},
           \A e \in o : Owner[e[1][1]] = x.owner,
           \A e \in o \cup l : /\ e[1][2] <= saved[e[1][1]].attempt
                               /\ e[2] = "output" => <<e[1], "detail">> \notin torn
    PROVE  LET y == [x EXCEPT !.opening = o, !.left = l, !.bad = b] IN y \in Browser /\ BrowserFits(y)
<1> DEFINE y == [x EXCEPT !.opening = o, !.left = l, !.bad = b]
<1>1. /\ y \in Browser /\ y.pc = x.pc /\ y.seen = x.seen /\ y.owner = x.owner
      /\ y.opening = o /\ y.left = l
    BY DEF Browser
<1> HIDE DEF y
<1>2. BrowserFits(y)
    BY <1>1 DEF BrowserFits
<1> QED
    BY <1>1, <1>2 DEF y

LEMMA ChooseSound == ASSUME LiveSound, Live!Choose PROVE LiveSound'
<1>1. browse \in Browser /\ BrowserFits(browse) /\ browse.pc = "attempts" /\ route \in Place
    BY FitsNow DEF LiveSound, LiveTypes, Live!Choose
<1>2. /\ browse.seen \in Sight /\ browse.seen.run \in Run /\ browse.seen.attempt \in Nat
      /\ Owner[browse.seen.run] = browse.owner /\ browse.seen.attempt <= saved[browse.seen.run].attempt
    BY <1>1 DEF BrowserFits, Of, Sight
<1>3. PICK n \in 1..browse.seen.attempt :
          IF Live!Refers(n)
          THEN /\ Live!Browse([browse EXCEPT !.opening = @ \cup {<<<<browse.seen.run, n>>, "detail">>}])
               /\ UNCHANGED route
          ELSE Live!Navigate(browse, <<browse.seen.run, n>>)
    BY DEF Live!Choose
<1> DEFINE c == <<browse.seen.run, n>>
<1>4. c \in Run \X Nat /\ n \in Nat /\ n <= saved[browse.seen.run].attempt
    <2>1. saved[browse.seen.run].attempt \in Nat /\ n \in Nat /\ n <= browse.seen.attempt
        BY <1>2, <1>3 DEF LiveSound, LiveTypes, Sight
    <2> QED
        BY <1>2, <2>1
<1>5. CASE ~Live!Refers(n)
    BY <1>1, <1>3, <1>4, <1>5, NavigateSound DEF Place
<1>6. CASE Live!Refers(n)
    <2> DEFINE o == browse.opening \cup {<<c, "detail">>}
    <2>1. o \in SUBSET Entry /\ browse.left \in SUBSET Entry /\ browse.bad \in SUBSET (Run \X Nat)
        BY <1>1, <1>4 DEF Browser, Entry, Live!Record
    <2>2. \A e \in o : Owner[e[1][1]] = browse.owner
        BY <1>1, <1>2 DEF BrowserFits
    <2>3. \A e \in o \cup browse.left :
              /\ e[1][2] <= saved[e[1][1]].attempt
              /\ e[2] = "output" => <<e[1], "detail">> \notin torn
        <3>1. c[2] <= saved[c[1]].attempt /\ <<c, "detail">>[1] = c /\ <<c, "detail">>[2] = "detail"
            BY <1>4
        <3>2. \A e \in o \cup browse.left : e \in browse.opening \cup browse.left \/ e = <<c, "detail">>
            OBVIOUS
        <3> HIDE DEF c, o
        <3> QED
            BY <1>1, <3>1, <3>2 DEF BrowserFits
    <2> DEFINE x == [browse EXCEPT !.opening = o, !.left = browse.left, !.bad = browse.bad]
    <2>4. x = [browse EXCEPT !.opening = o]
        BY <1>1 DEF Browser
    <2> HIDE DEF o
    <2>5. x \in Browser /\ BrowserFits(x)
        BY <1>1, <2>1, <2>2, <2>3, ReadingFits
    <2>6. Live!Browse(x) /\ route' \in Place
        BY <1>1, <1>3, <1>6, <2>4 DEF o
    <2> QED
        BY <2>5, <2>6, BrowseSound
<1> QED
    BY <1>5, <1>6

LEMMA RecordFailsSound == ASSUME LiveSound, Live!RecordFails PROVE LiveSound'
<1>1. browse \in Browser /\ BrowserFits(browse) /\ route \in Place /\ route' = route
    BY FitsNow DEF LiveSound, LiveTypes, Live!RecordFails
<1>2. PICK o \in SUBSET browse.opening, l \in SUBSET browse.left, b \in SUBSET (Run \X Nat) :
          Live!Browse([browse EXCEPT !.opening = o, !.left = l, !.bad = b])
    <2>1. ASSUME NEW e \in browse.opening,
                 Live!Browse([browse EXCEPT !.opening = @ \ {e}, !.bad = @ \cup {e[1]}])
          PROVE  \E o \in SUBSET browse.opening, l \in SUBSET browse.left, b \in SUBSET (Run \X Nat) :
                     Live!Browse([browse EXCEPT !.opening = o, !.left = l, !.bad = b])
        <3> DEFINE o == browse.opening \ {e}
                   b == browse.bad \cup {e[1]}
        <3>1. b \in SUBSET (Run \X Nat) /\ o \in SUBSET browse.opening
            BY <1>1, <2>1 DEF Browser, Entry
        <3>2. Live!Browse([browse EXCEPT !.opening = o, !.bad = b])
            BY <2>1
        <3> HIDE DEF o, b
        <3>3. [browse EXCEPT !.opening = o, !.bad = b] = [browse EXCEPT !.opening = o, !.left = browse.left, !.bad = b]
            BY <1>1 DEF Browser
        <3>4. Live!Browse([browse EXCEPT !.opening = o, !.left = browse.left, !.bad = b])
            BY <3>2, <3>3
        <3> QED
            BY <3>1, <3>4
    <2>2. ASSUME NEW e \in browse.left, Live!Browse([browse EXCEPT !.left = @ \ {e}])
          PROVE  \E o \in SUBSET browse.opening, l \in SUBSET browse.left, b \in SUBSET (Run \X Nat) :
                     Live!Browse([browse EXCEPT !.opening = o, !.left = l, !.bad = b])
        <3> DEFINE l == browse.left \ {e}
        <3>1. l \in SUBSET browse.left /\ browse.bad \in SUBSET (Run \X Nat)
            BY <1>1 DEF Browser
        <3>2. Live!Browse([browse EXCEPT !.left = l])
            BY <2>2
        <3> HIDE DEF l
        <3>3. [browse EXCEPT !.left = l] = [browse EXCEPT !.opening = browse.opening, !.left = l, !.bad = browse.bad]
            BY <1>1 DEF Browser
        <3>4. Live!Browse([browse EXCEPT !.opening = browse.opening, !.left = l, !.bad = browse.bad])
            BY <3>2, <3>3
        <3> QED
            BY <3>1, <3>4
    <2> QED
        BY <2>1, <2>2 DEF Live!RecordFails
<1> DEFINE x == [browse EXCEPT !.opening = o, !.left = l, !.bad = b]
<1>3. x \in Browser /\ BrowserFits(x)
    <2>1. o \in SUBSET Entry /\ l \in SUBSET Entry
        BY <1>1, <1>2 DEF Browser
    <2>2. /\ browse.pc \in {"none", "closed", "reading"} => o = {}
          /\ \A e \in o : Owner[e[1][1]] = browse.owner
          /\ \A e \in o \cup l : /\ e[1][2] <= saved[e[1][1]].attempt
                                 /\ e[2] = "output" => <<e[1], "detail">> \notin torn
        BY <1>1, <1>2 DEF BrowserFits
    <2> QED
        BY <1>1, <1>2, <2>1, <2>2, ReadingFits
<1> QED
    BY <1>1, <1>2, <1>3, BrowseSound

LEMMA DetailReadSound == ASSUME LiveSound, Live!DetailRead PROVE LiveSound'
<1>1. browse \in Browser /\ BrowserFits(browse) /\ route \in Place /\ route' = route
    BY FitsNow DEF LiveSound, LiveTypes, Live!DetailRead
<1>2. PICK e \in browse.opening \cup browse.left :
          /\ e[2] = "detail" /\ Live!Whole(e)
          /\ LET next(set) == IF e \in set THEN (set \ {e}) \cup {<<e[1], "output">>} ELSE set IN
             Live!Browse([browse EXCEPT !.opening = next(@), !.left = next(@)])
    BY DEF Live!DetailRead
<1> DEFINE next(set) == IF e \in set THEN (set \ {e}) \cup {<<e[1], "output">>} ELSE set
           o == next(browse.opening)
           l == next(browse.left)
           x == [browse EXCEPT !.opening = o, !.left = l, !.bad = browse.bad]
<1>3. e = <<e[1], "detail">> /\ e[1] \in Run \X Nat /\ e \notin torn
      /\ browse.opening \in SUBSET Entry /\ browse.left \in SUBSET Entry /\ browse.bad \in SUBSET (Run \X Nat)
    BY <1>1, <1>2 DEF Live!Whole, Browser, Entry
<1>4. o \in SUBSET Entry /\ l \in SUBSET Entry
    BY <1>3 DEF Entry, Live!Record
<1>5. /\ browse.pc \in {"none", "closed", "reading"} => o = {}
      /\ \A i \in o : Owner[i[1][1]] = browse.owner
    BY <1>1 DEF BrowserFits
<1>6. \A i \in o \cup l : /\ i[1][2] <= saved[i[1][1]].attempt
                          /\ i[2] = "output" => <<i[1], "detail">> \notin torn
    <2>1. e[1][2] <= saved[e[1][1]].attempt /\ <<e[1], "detail">> \notin torn /\ <<e[1], "output">>[1] = e[1]
        BY <1>1, <1>2, <1>3 DEF BrowserFits
    <2>2. \A i \in o \cup l : i \in browse.opening \cup browse.left \/ i = <<e[1], "output">>
        OBVIOUS
    <2> HIDE DEF o, l
    <2> QED
        BY <1>1, <2>1, <2>2 DEF BrowserFits
<1>7. Live!Browse([browse EXCEPT !.opening = o, !.left = l])
    BY <1>2
<1> HIDE DEF o, l
<1>8. x = [browse EXCEPT !.opening = o, !.left = l]
    BY <1>1 DEF Browser
<1>9. x \in Browser /\ BrowserFits(x)
    BY <1>1, <1>3, <1>4, <1>5, <1>6, ReadingFits
<1> QED
    BY <1>1, <1>7, <1>8, <1>9, BrowseSound

LEMMA OpenAttemptSound == ASSUME LiveSound, Live!OpenAttempt PROVE LiveSound'
<1>1. browse \in Browser /\ BrowserFits(browse)
    BY FitsNow
<1>2. PICK e \in browse.opening \cup browse.left :
          Live!Navigate([browse EXCEPT !.opening = @ \ {e}, !.left = @ \ {e}], e[1])
    BY DEF Live!OpenAttempt
<1> DEFINE o == browse.opening \ {e}
           l == browse.left \ {e}
           x == [browse EXCEPT !.opening = o, !.left = l, !.bad = browse.bad]
<1>3. e[1] \in Place /\ o \in SUBSET Entry /\ l \in SUBSET Entry /\ browse.bad \in SUBSET (Run \X Nat)
    BY <1>1, <1>2 DEF Browser, Entry, Place
<1>4. /\ browse.pc \in {"none", "closed", "reading"} => o = {}
      /\ \A i \in o : Owner[i[1][1]] = browse.owner
      /\ \A i \in o \cup l : /\ i[1][2] <= saved[i[1][1]].attempt
                             /\ i[2] = "output" => <<i[1], "detail">> \notin torn
    BY <1>1 DEF BrowserFits
<1>5. Live!Navigate([browse EXCEPT !.opening = o, !.left = l], e[1])
    BY <1>2
<1> HIDE DEF o, l
<1>6. x = [browse EXCEPT !.opening = o, !.left = l]
    BY <1>1 DEF Browser
<1>7. x \in Browser /\ BrowserFits(x)
    BY <1>1, <1>3, <1>4, ReadingFits
<1>8. Live!Navigate(x, e[1])
    BY <1>5, <1>6
<1> QED
    BY <1>3, <1>7, <1>8, NavigateSound

-----------------------------------------------------------------------------
(* Navigation.                                                             *)

LEMMA ControllerNavigates ==
    ASSUME LiveSound, Live!Controller
    PROVE  Live!NavigationTrue
<1> SUFFICES ASSUME route' # route, moves' = moves PROVE Live!NavigationTrue
    BY DEF Live!NavigationTrue
<1>1. Live!Navigates
    BY DEF Live!Controller, Live!Select, Live!ShowDialog, Live!Takes, Live!Ignored, Live!Discovered,
       Live!Refreshed, Live!TimerFires, Live!TimesOut, Live!Dispose, Live!Enter
<1>2. /\ op.what = "nav" /\ op' = Live!NoOp /\ op'.what = "none" /\ op.value # None
      /\ route = op.owner /\ Live!Confirms /\ route' = <<op.run, op.sel>> /\ saved' = saved
    BY <1>1 DEF Live!Navigates, Live!Settles, Live!NoOp
<1>3. op.owner = view.owner
    BY <1>1, Awaits DEF LiveSound, Live!Navigates, Live!Settles
<1>4. /\ op.run \in Run /\ op.value \notin {None, Failed} /\ op.value.attempt = op.sel
      /\ op.value.attempt <= saved[op.run].attempt /\ Owner[op.run] = op.owner
    BY <1>2 DEF LiveSound, InFlight, Of, Live!Confirms
<1>5. route'[1] = op.run /\ route'[2] = op.sel
    BY <1>2
<1> QED
    BY <1>2, <1>3, <1>4, <1>5 DEF Live!NavigationTrue

LEMMA ChooseNavigates == ASSUME LiveSound, Live!Choose PROVE Live!NavigationTrue
<1> SUFFICES ASSUME route' # route, moves' = moves PROVE Live!NavigationTrue
    BY DEF Live!NavigationTrue
<1>1. BrowserFits(browse) /\ browse.pc = "attempts"
    BY FitsNow DEF Live!Choose
<1>2. PICK n \in 1..browse.seen.attempt :
          ~Live!Refers(n) /\ Live!Navigate(browse, <<browse.seen.run, n>>)
    BY DEF Live!Choose
<1>3. /\ browse.seen \in Sight /\ browse.seen.attempt \in Nat /\ Owner[browse.seen.run] = browse.owner
      /\ browse.seen.attempt <= saved[browse.seen.run].attempt
    BY <1>1 DEF BrowserFits, Of, Sight
<1>4. n = browse.seen.attempt /\ browse.seen.runs
    BY <1>2, <1>3 DEF Live!Refers
<1>5. route' = <<browse.seen.run, n>> /\ op' = op
    BY <1>2 DEF Live!Navigate, Live!Browse
<1>6. route'[1] = browse.seen.run /\ route'[2] = n
    BY <1>5
<1> QED
    BY <1>3, <1>4, <1>5, <1>6 DEF Live!NavigationTrue

LEMMA OpenNavigates == ASSUME LiveSound, Live!OpenAttempt PROVE Live!NavigationTrue
<1> SUFFICES ASSUME route' # route, moves' = moves PROVE Live!NavigationTrue
    BY DEF Live!NavigationTrue
<1>1. BrowserFits(browse) /\ browse \in Browser
    BY FitsNow
<1>2. PICK e \in browse.opening \cup browse.left :
          /\ e[2] = "output" /\ Live!Whole(e)
          /\ Live!Navigate([browse EXCEPT !.opening = @ \ {e}, !.left = @ \ {e}], e[1])
    BY DEF Live!OpenAttempt
<1>3. route' = e[1] /\ op' = op
    BY <1>2 DEF Live!Navigate, Live!Browse
<1>4. e[1][2] <= saved[e[1][1]].attempt /\ <<e[1], "detail">> \notin torn
    BY <1>1, <1>2 DEF BrowserFits
<1>5. e = <<e[1], "output">>
    BY <1>1, <1>2 DEF Browser, Entry
<1>6. \A k \in Live!Record : <<route', k>> \notin torn
    BY <1>2, <1>3, <1>4, <1>5 DEF Live!Whole, Live!Record
<1>7. browse.left = {} => Owner[route'[1]] = browse.owner
    BY <1>1, <1>2, <1>3 DEF BrowserFits
<1> QED
    BY <1>3, <1>4, <1>6, <1>7 DEF Live!NavigationTrue

-----------------------------------------------------------------------------
(* The terminal's views: the theorem.                                      *)

LEMMA LiveNext ==
    ASSUME LiveSound, Live!Next
    PROVE  LiveSound' /\ Live!NavigationTrue
<1>1. CASE Live!Controller
    BY <1>1, ControllerNavigates, SelectSound, ShowDialogSound, TakesSound, IgnoredSound, DiscoveredSound,
       RefreshedSound, TimerFiresSound, TimesOutSound, DisposeSound, EnterSound, NavigatesSound
       DEF Live!Controller
<1>2. CASE Live!OpenRuns \/ Live!RunsRead \/ Live!Escape
    BY <1>2, OpenRunsSound DEF Live!NavigationTrue, Live!OpenRuns, Live!RunsRead, Live!Escape
<1>3. CASE Live!ShowVisible \/ Live!ShowArchived \/ Live!ArchiveRead
    BY <1>3, ShowsSound DEF Live!NavigationTrue, Live!ShowVisible, Live!ShowArchived, Live!ArchiveRead
<1>4. CASE Live!Choose
    BY <1>4, ChooseSound, ChooseNavigates
<1>5. CASE Live!RecordFails \/ Live!DetailRead
    BY <1>5, RecordFailsSound, DetailReadSound DEF Live!NavigationTrue, Live!RecordFails, Live!DetailRead
<1>6. CASE Live!OpenAttempt
    BY <1>6, OpenAttemptSound, OpenNavigates
<1>7. CASE Live!Move
    <2>1. moves' # moves
        BY <1>7 DEF Live!Move
    <2> QED
        BY <1>7, <2>1, MoveSound DEF Live!NavigationTrue
<1>8. CASE \E r \in Run : Live!Save(r)
    BY <1>8, SaveSound DEF Live!NavigationTrue, Live!Save
<1> QED
    BY <1>1, <1>2, <1>3, <1>4, <1>5, <1>6, <1>7, <1>8 DEF Live!Next

LEMMA LiveInit == ASSUME Live!Init PROVE LiveSound
<1>1. /\ route \in Session /\ saved = [r \in Run |-> [run |-> r, runs |-> TRUE, attempt |-> 1]]
      /\ known = Run \X (1..MaxAttempts) /\ opened = None
      /\ view = [owner |-> None, phase |-> "idle", run |-> None, seen |-> None]
      /\ op = [what |-> "none", owner |-> None, run |-> None, gen |-> 0, sel |-> 0,
               waits |-> FALSE, value |-> None]
    BY DEF Live!Init, Live!Child, Live!NoView, Live!NoOp
<1>2. PICK live \in BOOLEAN :
          /\ ctl = [gen |-> 0, timedOut |-> FALSE, timer |-> FALSE, disposed |-> ~live]
          /\ browse = [Live!NoBrowse EXCEPT !.pc = IF live THEN "none" ELSE "closed"]
          /\ torn \in {{}} \cup (IF live THEN {} ELSE {{x} : x \in Live!Child \X Live!Record})
    BY DEF Live!Init
<1>3. \E pc \in {"none", "closed"}, disposed \in BOOLEAN :
          /\ browse = [pc |-> pc, owner |-> None, seen |-> None, bad |-> {}, opening |-> {}, left |-> {}]
          /\ ctl = [gen |-> 0, timedOut |-> FALSE, timer |-> FALSE, disposed |-> disposed]
    <2>1. CASE live
        BY <1>2, <2>1 DEF Live!NoBrowse
    <2>2. CASE ~live
        BY <1>2, <2>2 DEF Live!NoBrowse
    <2> QED
        BY <2>1, <2>2
<1>4. saved \in [Run -> Sight] /\ FilesAreOf
    BY <1>1 DEF FilesAreOf, Sight
<1>5. LiveTypes
    BY <1>1, <1>3, <1>4 DEF LiveTypes, Place, Phase
<1>6. Shown /\ InFlight /\ Browsed /\ Live!Refreshes
    BY <1>1, <1>3 DEF Shown, InFlight, IsCurrent, Live!Busy, Browsed, Live!Refreshes, Live!NoView
<1> QED
    BY <1>4, <1>5, <1>6 DEF LiveSound

LiveInvariant == by = "live" => LiveSound

LEMMA LiveStep ==
    ASSUME LiveInvariant, [Next]_vars
    PROVE  /\ LiveInvariant'
           /\ by = "live" => Live!DisplayIsOwners' /\ Live!Refreshes' /\ Live!NavigationTrue
<1>1. LiveSound' => Live!DisplayIsOwners' /\ Live!Refreshes'
    BY DEF LiveSound, Shown, Live!DisplayIsOwners
<1>2. CASE by = "live" /\ Live!Next /\ UNCHANGED by
    BY <1>1, <1>2, LiveNext DEF LiveInvariant
<1>3. CASE by # "live" /\ UNCHANGED by
    BY <1>3 DEF LiveInvariant
<1>4. CASE UNCHANGED vars
    <2>1. LiveInvariant' /\ Live!NavigationTrue /\ by' = by
        BY <1>4 DEF vars, viewVars, LiveInvariant, LiveSound, LiveTypes, FilesAreOf, Shown, InFlight, IsCurrent,
           Browsed, Of, Live!Busy, Live!Refreshes, Live!NavigationTrue
    <2> QED
        BY <1>1, <2>1 DEF LiveInvariant
<1> QED
    BY <1>2, <1>3, <1>4 DEF Next

\* docs/live-run-visibility.md:94 and :97, for any number of sessions, runs and attempts, and
\* however reads are late, fail or never end: /alg-live shows only what is of the session that
\* was selected last, and looks again while the run runs; and the terminal goes only to an
\* attempt that a run of the session recorded, with whole records (LiveRunController,
\* openAlgRuns, navigateValidatedAttempt).
THEOREM LiveIsTrue == Spec => LiveTrue
<1>1. Init => LiveInvariant
    BY LiveInit DEF Init, LiveInvariant
<1>2. LiveInvariant /\ [Next]_vars => LiveInvariant'
    BY LiveStep
<1>3. LiveInvariant /\ [Next]_vars =>
          [by = "live" => Live!DisplayIsOwners' /\ Live!Refreshes' /\ Live!NavigationTrue]_vars
    BY LiveStep
<1> QED
    BY <1>1, <1>2, <1>3, PTL DEF Spec, LiveTrue

-----------------------------------------------------------------------------
(* The cards: the inductive invariant.                                     *)

Ending == {"completed", "error"}
Status == {"running"} \cup Ending
Call == [pc : {"idle", "open", "settling", "done"}, leased : BOOLEAN, base : SUBSET Attempt,
         failures : Nat, disabled : BOOLEAN, card : [Attempt -> {"none"} \cup Status]]

CardTypes ==
    /\ attempt \in [Attempt -> {"none", "running", "done", "failed"}]
    /\ call \in [Caller -> Call]
    /\ chain \in [Caller -> [Cards!CardOf -> Seq(Status)]]
    /\ sidecar \subseteq Cards!CardOf
    /\ host \in [Cards!CardOf -> {"none"} \cup Status]
    /\ lost \subseteq Cards!CardOf

\* The call of the card k, its place, and what the call knows of the card and still has to say.
Pc(k) == call[k[1]].pc
CardIs(k) == call[k[1]].card[k[2]]
Own(k) == chain[k[1]][k]

\* A call says of its own card that it runs and then how it ended, and of any other that it ended.
Updates(card) ==
    CASE card = "none" -> {<< >>}
      [] card = "running" -> {<< >>, <<"running">>}
      [] OTHER -> {<< >>, <<card>>, <<"running", card>>}
ChainsFit == \A k \in Cards!CardOf :
    /\ Own(k) \in Updates(CardIs(k))
    /\ \A c \in Caller : c # k[1] => chain[c][k] \in {<< >>, <<"error">>}

\* Completed is said of attempts that were saved as done.
DoneFirst == \A k \in Cards!CardOf :
    CardIs(k) = "completed" \/ host[k] = "completed" => attempt[k[2]] = "done"

\* A call that did not start has nothing, and one that is cut off has lost what it was to say.
CallsFit == \A c \in Caller :
    /\ call[c].pc = "idle" => ~call[c].disabled /\ \A k \in Cards!CardOf : chain[c][k] = << >>
    /\ call[c].disabled => \A k \in Cards!CardOf :
        chain[c][k] # << >> \/ (k[1] = c /\ CardIs(k) = "running") => k \in lost

\* Another call speaks of a card only when its own call has ended and said all.
Spoken(k) == \E c \in Caller : c # k[1] /\ chain[c][k] # << >>
\* A card that was not lost: the host shows what its call has said; as long as it runs it is in
\* the sidecar; and what a dead call left running is there until a call says that it ended.
Followed(k) ==
    /\ Spoken(k) => Pc(k) = "done" /\ Own(k) = << >>
    /\ CardIs(k) = "running" =>
        /\ Pc(k) = "open" /\ k \in sidecar
        /\ host[k] = IF Own(k) = << >> THEN "running" ELSE "none"
    /\ CardIs(k) \in Ending =>
        /\ Own(k) = << >> => host[k] \in Ending
        /\ Own(k) = <<"running", CardIs(k)>> => host[k] = "none"
    /\ CardIs(k) = "none" /\ Pc(k) # "done" => host[k] = "none"
    /\ CardIs(k) = "none" /\ Pc(k) = "done" /\ host[k] = "running" =>
        Spoken(k) \/ (k \in sidecar /\ \A c \in Caller : ~Cards!Open(c))
NotLost == \A k \in Cards!CardOf \ lost : Followed(k)
\* Before a card is known, and when its call is gone.
SidecarFits == \A k \in Cards!CardOf :
    /\ Pc(k) = "idle" => CardIs(k) = "none"
    /\ k \in sidecar /\ CardIs(k) = "none" => Pc(k) = "done"

CardsSound == CardTypes /\ ChainsFit /\ DoneFirst /\ CallsFit /\ NotLost /\ SidecarFits

-----------------------------------------------------------------------------
(* The cards: the parts of a step.                                         *)

LEMMA CardIsPair == \A k \in Cards!CardOf : k[1] \in Caller /\ k[2] \in Attempt /\ k = <<k[1], k[2]>>
BY DEF Cards!CardOf

LEMMA RunningIs ==
    ASSUME NEW c \in Caller, NEW l
    PROVE  /\ Cards!Running(c, l) \subseteq Cards!CardOf
           /\ \A k \in Cards!CardOf : k \in Cards!Running(c, l) <=> k[1] = c /\ l.card[k[2]] = "running"
BY DEF Cards!Running, Cards!CardOf

\* A send adds one update to each of the cards it is of.
LEMMA SendIs ==
    ASSUME CardTypes, NEW c \in Caller, NEW update, Cards!Send(c, update),
           \A k \in Cards!CardOf : k \in DOMAIN update => update[k] \in Status
    PROVE  /\ chain' \in [Caller -> [Cards!CardOf -> Seq(Status)]]
           /\ \A e \in Caller, k \in Cards!CardOf : chain'[e][k] =
                  IF e = c /\ k \in DOMAIN update THEN Append(chain[e][k], update[k]) ELSE chain[e][k]
<1> DEFINE sent == [k \in Cards!CardOf |-> IF k \in DOMAIN update THEN Append(chain[c][k], update[k])
                                           ELSE chain[c][k]]
<1>1. chain' = [chain EXCEPT ![c] = sent] /\ chain \in [Caller -> [Cards!CardOf -> Seq(Status)]]
    BY DEF Cards!Send, CardTypes
<1>2. ASSUME NEW k \in Cards!CardOf
      PROVE  sent[k] \in Seq(Status)
    <2>1. chain[c][k] \in Seq(Status)
        BY <1>1
    <2>2. k \in DOMAIN update => Append(chain[c][k], update[k]) \in Seq(Status)
        BY <2>1
    <2> QED
        BY <2>1, <2>2
<1>3. sent \in [Cards!CardOf -> Seq(Status)]
    BY <1>2
<1>4. \A k \in Cards!CardOf : sent[k] = IF k \in DOMAIN update THEN Append(chain[c][k], update[k]) ELSE chain[c][k]
    OBVIOUS
<1> HIDE DEF sent
<1> QED
    BY <1>1, <1>3, <1>4

\* A write of the sidecar by c, which keeps l, loses no card that c runs, and of the other calls
\* only cards that the ghost counts as lost.
LEMMA WriteIs ==
    ASSUME CardTypes, NEW c \in Caller, NEW l, Cards!Write(c, l)
    PROVE  /\ lost \subseteq lost' /\ lost' \subseteq Cards!CardOf /\ sidecar' \subseteq Cards!CardOf
           /\ \A k \in sidecar' \ sidecar : k[1] = c /\ l.card[k[2]] = "running"
           /\ \A k \in Cards!CardOf \ lost' :
               /\ k[1] = c /\ l.card[k[2]] = "running" /\ ~l.disabled => k \in sidecar'
               /\ k[1] # c /\ k \in sidecar => k \notin Cards!Keeps(k[1])
<1>1. Cards!Kept(c, l) \subseteq Cards!CardOf /\ Cards!Running(c, l) \subseteq Cards!CardOf
    BY RunningIs DEF Cards!Kept
<1>2. Cards!Taken(c, l) \subseteq Cards!CardOf
    BY DEF Cards!Taken, CardTypes
<1>3. ASSUME NEW k \in Cards!CardOf, k[1] # c, k \in sidecar, k \in Cards!Keeps(k[1]), k \notin Cards!Kept(c, l)
      PROVE  k \in Cards!Taken(c, l)
    BY <1>3, CardIsPair DEF Cards!Taken
<1>4. Cards!Taken(c, l) \subseteq lost' /\ lost \subseteq lost' /\ lost' \subseteq Cards!CardOf
      /\ (sidecar' = Cards!Kept(c, l) \/ (sidecar' = sidecar /\ Cards!Running(c, l) \subseteq lost'))
    BY <1>1, <1>2 DEF Cards!Write, CardTypes
<1>5. \A k \in Cards!CardOf : k \in Cards!Kept(c, l) <=> k[1] = c /\ l.card[k[2]] = "running" /\ ~l.disabled
    BY RunningIs DEF Cards!Kept
<1>6. \A k \in Cards!CardOf : k \in Cards!Running(c, l) <=> k[1] = c /\ l.card[k[2]] = "running"
    BY RunningIs
<1>7. /\ lost \subseteq lost' /\ lost' \subseteq Cards!CardOf /\ sidecar' \subseteq Cards!CardOf
      /\ \A k \in sidecar' \ sidecar : k[1] = c /\ l.card[k[2]] = "running"
    BY <1>1, <1>4, <1>5 DEF CardTypes
<1>8. ASSUME NEW k \in Cards!CardOf \ lost'
      PROVE  /\ k[1] = c /\ l.card[k[2]] = "running" /\ ~l.disabled => k \in sidecar'
             /\ k[1] # c /\ k \in sidecar => k \notin Cards!Keeps(k[1])
    BY <1>3, <1>4, <1>5, <1>6, <1>8
<1> QED
    BY <1>7, <1>8

\* What a chain is when an update is added.
LEMMA Grown ==
    /\ \A x : Append(<< >>, x) = <<x>>
    /\ \A x, y \in Status : Append(<<x>>, y) = <<x, y>>
<1>1. ASSUME NEW x PROVE Append(<< >>, x) = <<x>>
    OBVIOUS
<1>2. ASSUME NEW S, NEW x \in S, NEW y \in S PROVE Append(<<x>>, y) = <<x, y>>
    <2> DEFINE s == <<x>>
               t == Append(s, y)
    <2>1. s \in Seq(S) /\ Len(s) = 1 /\ s[1] = x
        OBVIOUS
    <2> HIDE DEF s
    <2>2. t \in Seq(S) /\ Len(t) = Len(s) + 1
        BY <2>1, AppendProperties
    <2>3. t[Len(s) + 1] = y
        BY <2>1, AppendProperties
    <2>4. \A i \in 1..Len(s) : t[i] = s[i]
        BY <2>1, AppendProperties
    <2> HIDE DEF t
    <2>5. Len(t) = 2 /\ t[1] = x /\ t[2] = y
        BY <2>1, <2>2, <2>3, <2>4
    <2> DEFINE u == <<x, y>>
    <2>6. u \in Seq(S) /\ Len(u) = 2 /\ u[1] = x /\ u[2] = y
        OBVIOUS
    <2> HIDE DEF u
    <2>7. \A i \in 1..Len(t) : t[i] = u[i]
        BY <2>5, <2>6
    <2>8. t = u
        BY <2>2, <2>5, <2>6, <2>7, SeqEqual
    <2> QED
        BY <2>8 DEF s, t, u
<1> QED
    BY <1>1, <1>2

\* What is left of a chain when its first update is taken.
LEMMA Rest ==
    /\ \A x : Cards!Without(<<x>>, 1) = << >>
    /\ \A x, y : Cards!Without(<<x, y>>, 1) = <<y>>
<1>1. ASSUME NEW x PROVE Cards!Without(<<x>>, 1) = << >>
    <2>1. Len(<<x>>) = 1 /\ SubSeq(<<x>>, 1, 0) = << >> /\ SubSeq(<<x>>, 2, 1) = << >>
        OBVIOUS
    <2> QED
        BY <2>1 DEF Cards!Without
<1>2. ASSUME NEW x, NEW y PROVE Cards!Without(<<x, y>>, 1) = <<y>>
    <2> DEFINE s == <<x, y>>
               t == SubSeq(s, 2, 2)
    <2>1. s \in Seq({x, y}) /\ Len(s) = 2 /\ s[2] = y
        OBVIOUS
    <2> HIDE DEF s
    <2>2. SubSeq(s, 1, 0) = << >>
        BY <2>1
    <2>3. t \in Seq({x, y}) /\ Len(t) = 1 /\ t[1] = y
        BY <2>1
    <2> HIDE DEF t
    <2>4. << >> \o t = <<y>>
        BY <2>3
    <2>5. Cards!Without(s, 1) = << >> \o t
        BY <2>1, <2>2 DEF Cards!Without, t
    <2> QED
        BY <2>4, <2>5 DEF s
<1> QED
    BY <1>1, <1>2

LEMMA EndedIs ==
    /\ Cards!Ended(<< >>) = {}
    /\ Cards!Ended(<<"running">>) = {}
    /\ \A x \in Ending : Cards!Ended(<<x>>) # {} /\ Cards!Ended(<<"running", x>>) # {}
<1>1. Cards!Ended(<< >>) = {} /\ Cards!Ended(<<"running">>) = {}
    BY DEF Cards!Ended
<1>2. ASSUME NEW x \in Ending PROVE 1 \in Cards!Ended(<<x>>) /\ 2 \in Cards!Ended(<<"running", x>>)
    BY DEF Cards!Ended, Ending
<1> QED
    BY <1>1, <1>2

\* A card that runs for the host will be closed, unless it was lost.
LEMMA CardsAreClosed == CardsSound => Cards!CardsClosed
<1> SUFFICES ASSUME CardsSound, NEW k \in Cards!CardOf \ lost, host[k] = "running", k \notin sidecar
             PROVE  \E c \in Caller : Cards!Ended(chain[c][k]) # {}
    BY DEF Cards!CardsClosed
<1>1. k[1] \in Caller /\ Followed(k) /\ Own(k) \in Updates(CardIs(k)) /\ CardIs(k) \in {"none"} \cup Status
    BY CardIsPair DEF CardsSound, NotLost, ChainsFit, CardTypes, Call, CardIs
<1>2. CASE CardIs(k) = "none"
    <2>1. Spoken(k)
        BY <1>1, <1>2 DEF Followed
    <2>2. PICK c \in Caller : c # k[1] /\ chain[c][k] # << >>
        BY <2>1 DEF Spoken
    <2>3. chain[c][k] = <<"error">>
        BY <2>2 DEF CardsSound, ChainsFit
    <2> QED
        BY <2>3, EndedIs DEF Ending
<1>3. CASE CardIs(k) \in Ending
    <2>1. Own(k) = <<CardIs(k)>> \/ Own(k) = <<"running", CardIs(k)>>
        BY <1>1, <1>3 DEF Followed, Updates, Ending
    <2> QED
        BY <1>1, <1>3, <2>1, EndedIs DEF Own
<1> QED
    BY <1>1, <1>2, <1>3 DEF Followed, Status, Ending

-----------------------------------------------------------------------------
(* The cards: the steps.                                                   *)

LEMMA CardOfCall ==
    ASSUME CardTypes, NEW k \in Cards!CardOf
    PROVE  /\ k[1] \in Caller /\ k[2] \in Attempt /\ call[k[1]] \in Call
           /\ CardIs(k) \in {"none"} \cup Status
BY CardIsPair DEF CardTypes, Call, CardIs

LEMMA LeaseSound == ASSUME CardsSound, NEW c \in Caller, Cards!Lease(c) PROVE CardsSound'
<1>1. CardTypes /\ ChainsFit /\ DoneFirst /\ CallsFit /\ NotLost /\ SidecarFits
      /\ UNCHANGED <<chain, sidecar, host, lost>>
    BY DEF CardsSound, Cards!Lease
<1>2. /\ call' = [call EXCEPT ![c].leased = TRUE] /\ call \in [Caller -> Call]
      /\ attempt' = [a \in Attempt |-> IF attempt[a] = "running" THEN "failed" ELSE attempt[a]]
    BY <1>1 DEF Cards!Lease, CardTypes
<1>3. /\ call' \in [Caller -> Call]
      /\ \A e \in Caller : /\ call'[e].pc = call[e].pc /\ call'[e].disabled = call[e].disabled
                           /\ call'[e].card = call[e].card
    BY <1>2 DEF Call
<1>4. CardTypes'
    BY <1>1, <1>2, <1>3 DEF CardTypes
<1>5. \A k \in Cards!CardOf : Pc(k)' = Pc(k) /\ CardIs(k)' = CardIs(k) /\ Own(k)' = Own(k)
                              /\ Spoken(k)' = Spoken(k)
    BY <1>1, <1>3, CardIsPair DEF Pc, CardIs, Own, Spoken
<1>6. ChainsFit' /\ CallsFit' /\ SidecarFits'
    BY <1>1, <1>3, <1>5 DEF ChainsFit, CallsFit, SidecarFits
<1>7. DoneFirst'
    BY <1>1, <1>2, <1>5, CardIsPair DEF DoneFirst
<1>8. \A e \in Caller : Cards!Open(e)' = Cards!Open(e)
    BY <1>3 DEF Cards!Open
<1>9. NotLost'
    BY <1>1, <1>5, <1>8 DEF NotLost, Followed
<1> QED
    BY <1>4, <1>6, <1>7, <1>9 DEF CardsSound

LEMMA SettledSound == ASSUME CardsSound, NEW c \in Caller, Cards!Settled(c) PROVE CardsSound'
<1>1. CardTypes /\ ChainsFit /\ DoneFirst /\ CallsFit /\ NotLost /\ SidecarFits
      /\ UNCHANGED <<attempt, chain, host>> /\ call[c].pc = "settling" /\ Cards!Write(c, call[c])
    BY DEF CardsSound, Cards!Settled
<1>2. call' = [call EXCEPT ![c].pc = "done"] /\ call \in [Caller -> Call]
    BY <1>1 DEF Cards!Settled, CardTypes
<1>3. /\ call' \in [Caller -> Call]
      /\ \A e \in Caller : /\ call'[e].pc = (IF e = c THEN "done" ELSE call[e].pc)
                           /\ call'[e].disabled = call[e].disabled /\ call'[e].card = call[e].card
    BY <1>2 DEF Call
<1>4. /\ lost \subseteq lost' /\ lost' \subseteq Cards!CardOf /\ sidecar' \subseteq Cards!CardOf
      /\ \A k \in sidecar' \ sidecar : k[1] = c /\ CardIs(k) = "running"
      /\ \A k \in Cards!CardOf \ lost' :
          /\ k[1] # c /\ k \in sidecar => k \notin Cards!Keeps(k[1])
    BY <1>1, WriteIs DEF CardIs
<1>5. CardTypes'
    BY <1>1, <1>3, <1>4 DEF CardTypes
<1>6. \A k \in Cards!CardOf : /\ CardIs(k)' = CardIs(k) /\ Own(k)' = Own(k) /\ Spoken(k)' = Spoken(k)
                              /\ Pc(k)' = (IF k[1] = c THEN "done" ELSE Pc(k))
    BY <1>1, <1>3, CardIsPair DEF Pc, CardIs, Own, Spoken
<1>7. ChainsFit'
    BY <1>1, <1>6 DEF ChainsFit
<1>8. DoneFirst'
    BY <1>1, <1>6 DEF DoneFirst
<1>9. CallsFit'
    BY <1>1, <1>3, <1>4, <1>6 DEF CallsFit
<1>10. SidecarFits'
    BY <1>1, <1>4, <1>6 DEF SidecarFits, Pc
<1>11. ASSUME NEW k \in Cards!CardOf \ lost' PROVE Followed(k)'
    <2>1. Followed(k) /\ k[1] \in Caller /\ CardIs(k) \in {"none"} \cup Status
        BY <1>1, <1>4, CardOfCall DEF NotLost
    <2>2. CASE k[1] = c
        <3>1. Pc(k) = "settling" /\ CardIs(k) # "running"
            BY <1>1, <2>1, <2>2 DEF Pc, Followed
        <3>2. CardIs(k) = "none" => host[k] = "none"
            BY <2>1, <3>1 DEF Followed
        <3> QED
            BY <1>1, <1>6, <2>1, <2>2, <3>1, <3>2 DEF Followed
    <2>3. CASE k[1] # c
        <3>1. CardIs(k) = "running" => k \in Cards!Keeps(k[1])
            BY <2>1 DEF Followed, Pc, CardIs, Cards!Keeps, Cards!Open, Cards!CardOf
        <3> QED
            BY <1>1, <1>4, <1>6, <2>1, <2>3, <3>1 DEF Followed, Cards!Open
    <2> QED
        BY <2>2, <2>3
<1> QED
    BY <1>5, <1>7, <1>8, <1>9, <1>10, <1>11 DEF CardsSound, NotLost

LEMMA SettleSound == ASSUME CardsSound, NEW c \in Caller, Cards!Settle(c) PROVE CardsSound'
<1> DEFINE open == Cards!Kept(c, call[c])
<1>1. CardTypes /\ ChainsFit /\ DoneFirst /\ CallsFit /\ NotLost /\ SidecarFits
      /\ UNCHANGED <<attempt, sidecar, host, lost>> /\ call[c].pc = "open"
    BY DEF CardsSound, Cards!Settle
<1>2. /\ call \in [Caller -> Call] /\ call[c] \in Call
      /\ call' = [call EXCEPT ![c].pc = "settling", ![c].leased = FALSE,
              ![c].card = [a \in Attempt |-> IF <<c, a>> \in open THEN "error" ELSE @[a]]]
      /\ Cards!Send(c, [k \in open |-> "error"])
    BY <1>1 DEF Cards!Settle, CardTypes
<1>3. /\ open \subseteq Cards!CardOf
      /\ \A k \in Cards!CardOf : k \in open <=> k[1] = c /\ CardIs(k) = "running" /\ ~call[c].disabled
    BY RunningIs DEF Cards!Kept, CardIs
<1> DEFINE card == [a \in Attempt |-> IF <<c, a>> \in open THEN "error" ELSE call[c].card[a]]
<1>4. /\ card \in [Attempt -> {"none"} \cup Status]
      /\ \A k \in Cards!CardOf : k[1] = c => card[k[2]] = IF k \in open THEN "error" ELSE CardIs(k)
    <2> HIDE DEF open
    <2>1. call[c].card \in [Attempt -> {"none"} \cup Status]
        BY <1>2 DEF Call
    <2> QED
        BY <2>1, CardIsPair DEF Status, Ending, CardIs
<1>5. call' = [call EXCEPT ![c].pc = "settling", ![c].leased = FALSE, ![c].card = card]
    BY <1>2
<1> HIDE DEF open, card
<1> DEFINE settled == [call[c] EXCEPT !.pc = "settling", !.leased = FALSE, !.card = card]
<1>6. call' = [call EXCEPT ![c] = settled] /\ settled \in Call /\ settled.pc = "settling"
      /\ settled.disabled = call[c].disabled /\ settled.card = card
    BY <1>2, <1>4, <1>5 DEF Call
<1> HIDE DEF settled
<1>7. /\ call' \in [Caller -> Call]
      /\ \A e \in Caller : /\ call'[e].pc = (IF e = c THEN "settling" ELSE call[e].pc)
                           /\ call'[e].disabled = call[e].disabled
                           /\ call'[e].card = (IF e = c THEN card ELSE call[e].card)
    BY <1>2, <1>6
<1>8. /\ chain' \in [Caller -> [Cards!CardOf -> Seq(Status)]]
      /\ \A e \in Caller, k \in Cards!CardOf : chain'[e][k] =
            IF e = c /\ k \in open THEN Append(chain[e][k], "error") ELSE chain[e][k]
    <2>1. "error" \in Status
        BY DEF Status, Ending
    <2> QED
        BY <1>1, <1>2, <2>1, SendIs
<1>9. CardTypes'
    BY <1>1, <1>7, <1>8 DEF CardTypes
<1>10. \A k \in Cards!CardOf :
         /\ CardIs(k)' = (IF k \in open THEN "error" ELSE CardIs(k))
         /\ Own(k)' = (IF k \in open THEN Append(Own(k), "error") ELSE Own(k))
         /\ Spoken(k)' = Spoken(k)
         /\ Pc(k)' = (IF k[1] = c THEN "settling" ELSE Pc(k))
    <2> SUFFICES ASSUME NEW k \in Cards!CardOf
                 PROVE  /\ CardIs(k)' = (IF k \in open THEN "error" ELSE CardIs(k))
                        /\ Own(k)' = (IF k \in open THEN Append(Own(k), "error") ELSE Own(k))
                        /\ Spoken(k)' = Spoken(k)
                        /\ Pc(k)' = (IF k[1] = c THEN "settling" ELSE Pc(k))
        OBVIOUS
    <2>1. k[1] \in Caller /\ (k \in open => k[1] = c)
        BY <1>3, CardIsPair
    <2>2. CardIs(k)' = (IF k \in open THEN "error" ELSE CardIs(k)) /\ Pc(k)' = (IF k[1] = c THEN "settling" ELSE Pc(k))
        BY <1>4, <1>7, <2>1 DEF CardIs, Pc
    <2>3. Own(k)' = (IF k \in open THEN Append(Own(k), "error") ELSE Own(k))
        BY <1>8, <2>1 DEF Own
    <2>4. \A e \in Caller : e # k[1] => chain'[e][k] = chain[e][k]
        BY <1>8, <2>1
    <2> QED
        BY <2>2, <2>3, <2>4 DEF Spoken
<1>11. ASSUME NEW k \in open
       PROVE  /\ k \in Cards!CardOf /\ k[1] = c /\ CardIs(k) = "running"
              /\ \/ Own(k) = << >> /\ Own(k)' = <<"error">>
                 \/ Own(k) = <<"running">> /\ Own(k)' = <<"running", "error">>
    <2>1. k \in Cards!CardOf /\ CardIs(k) = "running" /\ k[1] = c
        BY <1>3
    <2>2. Own(k) = << >> \/ Own(k) = <<"running">>
        BY <1>1, <2>1 DEF ChainsFit, Updates
    <2> QED
        BY <1>10, <2>1, <2>2, Grown DEF Status, Ending
<1>12. ChainsFit'
    <2>1. ASSUME NEW k \in Cards!CardOf PROVE Own(k)' \in Updates(CardIs(k)')
        <3>1. CASE k \in open
            BY <1>10, <1>11, <3>1 DEF Updates
        <3>2. CASE k \notin open
            BY <1>1, <1>10, <3>2 DEF ChainsFit
        <3> QED
            BY <3>1, <3>2
    <2>2. ASSUME NEW k \in Cards!CardOf, NEW e \in Caller, e # k[1]
          PROVE  chain'[e][k] \in {<< >>, <<"error">>}
        <3>1. ~(e = c /\ k \in open)
            BY <1>3, <2>2
        <3>2. chain'[e][k] = chain[e][k]
            BY <1>8, <3>1
        <3> QED
            BY <1>1, <2>2, <3>2 DEF ChainsFit
    <2> QED
        BY <2>1, <2>2 DEF ChainsFit, Updates
<1>13. DoneFirst'
    BY <1>1, <1>10 DEF DoneFirst
<1>14. CallsFit'
    <2>1. ASSUME NEW e \in Caller, call'[e].pc = "idle"
          PROVE  ~call'[e].disabled /\ \A k \in Cards!CardOf : chain'[e][k] = << >>
        <3>1. e # c /\ call[e].pc = "idle"
            BY <1>7, <2>1
        <3>2. \A k \in Cards!CardOf : chain'[e][k] = chain[e][k]
            BY <1>8, <3>1
        <3> QED
            BY <1>1, <1>7, <3>1, <3>2 DEF CallsFit
    <2>2. ASSUME NEW e \in Caller, call'[e].disabled, NEW k \in Cards!CardOf,
                 chain'[e][k] # << >> \/ (k[1] = e /\ CardIs(k)' = "running")
          PROVE  k \in lost'
        <3>1. ~(e = c /\ k \in open)
            BY <1>3, <1>7, <2>2
        <3>2. chain'[e][k] = chain[e][k] /\ call[e].disabled
            BY <1>7, <1>8, <2>2, <3>1
        <3>3. CardIs(k)' = "running" => CardIs(k) = "running"
            BY <1>10
        <3> QED
            BY <1>1, <2>2, <3>2, <3>3 DEF CallsFit
    <2> QED
        BY <2>1, <2>2 DEF CallsFit
<1>15. SidecarFits'
    BY <1>1, <1>3, <1>10 DEF SidecarFits, Pc
<1>16. ASSUME NEW k \in Cards!CardOf \ lost' PROVE Followed(k)'
    <2>1. Followed(k) /\ k[1] \in Caller /\ CardIs(k) \in {"none"} \cup Status
        BY <1>1, CardOfCall DEF NotLost
    <2>2. CASE k \in open
        <3>1. /\ CardIs(k)' = "error" /\ ~Spoken(k)'
              /\ \/ Own(k) = << >> /\ Own(k)' = <<"error">>
                 \/ Own(k) = <<"running">> /\ Own(k)' = <<"running", "error">>
            BY <1>1, <1>10, <1>11, <2>1, <2>2 DEF Followed, Pc
        <3>2. Own(k)' = <<"running", "error">> => host[k] = "none"
            BY <1>11, <2>1, <2>2, <3>1 DEF Followed
        <3> QED
            BY <1>1, <3>1, <3>2 DEF Followed, Ending
    <2>3. CASE k \notin open /\ k[1] = c
        <3>1. CardIs(k) # "running" /\ Pc(k) = "open"
            <4>1. CardIs(k) = "running" => ~call[c].disabled
                BY <1>1, <2>3 DEF CallsFit
            <4> QED
                BY <1>1, <1>3, <2>3, <4>1 DEF Pc
        <3> QED
            BY <1>1, <1>10, <2>1, <2>3, <3>1 DEF Followed
    <2>4. CASE k[1] # c
        <3>1. k \notin open /\ \A e \in Caller : Cards!Open(e)' = Cards!Open(e)
            BY <1>1, <1>3, <1>7, <2>4 DEF Cards!Open
        <3> QED
            BY <1>1, <1>10, <2>1, <2>4, <3>1 DEF Followed
    <2> QED
        BY <2>2, <2>3, <2>4
<1> QED
    BY <1>9, <1>12, <1>13, <1>14, <1>15, <1>16 DEF CardsSound, NotLost

LEMMA CrashSound == ASSUME CardsSound, Cards!Crash PROVE CardsSound'
<1> DEFINE fresh == [Cards!NewCall EXCEPT !.pc = "done"]
<1>1. CardTypes /\ ChainsFit /\ DoneFirst /\ CallsFit /\ NotLost /\ SidecarFits
      /\ UNCHANGED <<attempt, sidecar, host>>
    BY DEF CardsSound, Cards!Crash
<1>2. /\ fresh \in Call /\ fresh.pc = "done" /\ ~fresh.disabled
      /\ \A a \in Attempt : fresh.card[a] = "none"
    BY DEF Cards!NewCall, Call
<1>3. PICK gone \in SUBSET {c \in Caller : call[c].pc # "idle"} :
      /\ call' = [c \in Caller |-> IF c \in gone THEN fresh ELSE call[c]]
      /\ chain' = [c \in Caller |-> IF c \in gone THEN [k \in Cards!CardOf |-> << >>] ELSE chain[c]]
      /\ lost' = lost \cup {k \in Cards!CardOf :
             \/ \E c \in gone : Cards!Ended(chain[c][k]) # {}
             \/ /\ k[1] \in gone /\ call[k[1]].card[k[2]] = "running"
                /\ \E c \in Caller \ gone : Cards!Open(c)}
    BY DEF Cards!Crash
<1> HIDE DEF fresh
<1>4. CardTypes'
    <2>1. call \in [Caller -> Call] /\ chain \in [Caller -> [Cards!CardOf -> Seq(Status)]]
        BY <1>1 DEF CardTypes
    <2>2. call' \in [Caller -> Call] /\ lost' \subseteq Cards!CardOf
        BY <1>1, <1>2, <1>3, <2>1 DEF CardTypes
    <2>3. chain' \in [Caller -> [Cards!CardOf -> Seq(Status)]]
        BY <1>3, <2>1
    <2> QED
        BY <1>1, <2>2, <2>3 DEF CardTypes
<1>5. ASSUME NEW c \in Caller
      PROVE  /\ c \in gone => /\ call'[c] = fresh /\ call[c].pc # "idle"
                              /\ \A k \in Cards!CardOf : chain'[c][k] = << >>
             /\ c \notin gone => call'[c] = call[c] /\ chain'[c] = chain[c]
    BY <1>1, <1>3 DEF CardTypes
<1>6. ASSUME NEW k \in Cards!CardOf
      PROVE  /\ k[1] \in gone => CardIs(k)' = "none" /\ Own(k)' = << >> /\ Pc(k)' = "done" /\ Pc(k) # "idle"
             /\ k[1] \notin gone => CardIs(k)' = CardIs(k) /\ Own(k)' = Own(k) /\ Pc(k)' = Pc(k)
             /\ k[1] \in Caller /\ k[2] \in Attempt
             /\ \A c \in Caller : chain'[c][k] \in {<< >>, chain[c][k]}
    <2>1. k[1] \in Caller /\ k[2] \in Attempt
        BY CardIsPair
    <2>2. \A c \in Caller : chain'[c][k] \in {<< >>, chain[c][k]}
        BY <1>5
    <2>3. k[1] \in gone => CardIs(k)' = "none" /\ Own(k)' = << >> /\ Pc(k)' = "done" /\ Pc(k) # "idle"
        BY <1>2, <1>5, <2>1 DEF CardIs, Pc, Own
    <2>4. k[1] \notin gone => CardIs(k)' = CardIs(k) /\ Own(k)' = Own(k) /\ Pc(k)' = Pc(k)
        BY <1>5, <2>1 DEF CardIs, Pc, Own
    <2> QED
        BY <2>1, <2>2, <2>3, <2>4
<1>7. ChainsFit' /\ SidecarFits' /\ DoneFirst'
    <2>1. ChainsFit'
        <3> SUFFICES ASSUME NEW k \in Cards!CardOf
                     PROVE  /\ Own(k)' \in Updates(CardIs(k)')
                            /\ \A c \in Caller : c # k[1] => chain'[c][k] \in {<< >>, <<"error">>}
            BY DEF ChainsFit
        <3>1. Own(k) \in Updates(CardIs(k)) /\ \A c \in Caller : c # k[1] => chain[c][k] \in {<< >>, <<"error">>}
            BY <1>1 DEF ChainsFit
        <3>2. << >> \in Updates("none")
            BY DEF Updates
        <3> QED
            BY <1>6, <3>1, <3>2
    <2>2. SidecarFits'
        BY <1>1, <1>6 DEF SidecarFits
    <2>3. DoneFirst'
        BY <1>1, <1>6 DEF DoneFirst
    <2> QED
        BY <2>1, <2>2, <2>3
<1>8. CallsFit'
    <2> SUFFICES ASSUME NEW c \in Caller
                 PROVE  /\ call'[c].pc = "idle" => ~call'[c].disabled /\ \A k \in Cards!CardOf : chain'[c][k] = << >>
                        /\ call'[c].disabled => \A k \in Cards!CardOf :
                               chain'[c][k] # << >> \/ (k[1] = c /\ CardIs(k)' = "running") => k \in lost'
        BY DEF CallsFit
    <2>1. CASE c \in gone
        BY <1>2, <1>5, <2>1
    <2>2. CASE c \notin gone
        <3>1. call'[c] = call[c] /\ chain'[c] = chain[c] /\ lost \subseteq lost'
            BY <1>3, <1>5, <2>2
        <3>2. \A k \in Cards!CardOf : k[1] = c => CardIs(k)' = CardIs(k)
            BY <1>6, <2>2
        <3> QED
            BY <1>1, <3>1, <3>2 DEF CallsFit
    <2> QED
        BY <2>1, <2>2
<1>9. ASSUME NEW k \in Cards!CardOf \ lost' PROVE Followed(k)'
    <2>1. /\ Followed(k) /\ k \in Cards!CardOf /\ k[1] \in Caller
          /\ \A c \in gone : Cards!Ended(chain[c][k]) = {}
          /\ k[1] \in gone /\ CardIs(k) = "running" => \A c \in Caller \ gone : ~Cards!Open(c)
        BY <1>1, <1>3, CardIsPair DEF NotLost, CardIs
    <2>2. \A c \in Caller : IF c \in gone THEN ~Cards!Open(c)' ELSE Cards!Open(c)' = Cards!Open(c)
        BY <1>2, <1>5 DEF Cards!Open
    <2>3. ASSUME NEW c \in Caller, c # k[1] PROVE chain'[c][k] = chain[c][k]
        <3>1. c \in gone => chain[c][k] = << >>
            BY <1>1, <2>1, <2>3, EndedIs DEF ChainsFit, Ending
        <3> QED
            BY <1>5, <3>1
    <2>4. Spoken(k)' = Spoken(k)
        BY <2>3 DEF Spoken
    <2>5. CASE k[1] \notin gone
        BY <1>1, <1>6, <2>1, <2>2, <2>4, <2>5 DEF Followed
    <2>6. CASE k[1] \in gone
        <3>1. CardIs(k)' = "none" /\ Own(k)' = << >> /\ Pc(k)' = "done" /\ Pc(k) # "idle"
            BY <1>6, <2>6
        <3>2. Own(k) \in Updates(CardIs(k)) /\ CardIs(k) \in {"none"} \cup Status /\ Cards!Ended(Own(k)) = {}
            BY <1>1, <2>1, <2>6, CardOfCall DEF ChainsFit, Own
        <3>3. CardIs(k) \in Ending => host[k] \in Ending
            BY <2>1, <3>2, EndedIs DEF Updates, Ending, Followed
        <3>4. CardIs(k) = "running" => k \in sidecar /\ \A c \in Caller \ gone : ~Cards!Open(c)
            BY <2>1, <2>6 DEF Followed
        <3>5. host[k] = "running" => Spoken(k) \/ (k \in sidecar /\ \A c \in Caller : ~Cards!Open(c)')
            BY <2>1, <2>2, <3>1, <3>2, <3>3, <3>4 DEF Followed, Status, Ending
        <3> QED
            BY <1>1, <2>4, <3>1, <3>5 DEF Followed, Ending
    <2> QED
        BY <2>5, <2>6
<1> QED
    BY <1>4, <1>7, <1>8, <1>9 DEF CardsSound, NotLost

LEMMA PrimeSound == ASSUME CardsSound, NEW c \in Caller, Cards!Prime(c) PROVE CardsSound'
<1>1. CardTypes /\ ChainsFit /\ DoneFirst /\ CallsFit /\ NotLost /\ SidecarFits
      /\ UNCHANGED <<attempt, host>> /\ call[c].pc = "idle"
    BY DEF CardsSound, Cards!Prime
<1>2. /\ call \in [Caller -> Call] /\ call[c] \in Call
      /\ call' = [call EXCEPT ![c].pc = "open", ![c].base = Cards!Started]
      /\ Cards!Send(c, [k \in sidecar |-> "error"]) /\ Cards!Started \in SUBSET Attempt
    BY <1>1 DEF Cards!Prime, CardTypes, Cards!Started
<1> DEFINE opened0 == [call[c] EXCEPT !.pc = "open", !.base = Cards!Started]
<1>3. call' = [call EXCEPT ![c] = opened0] /\ opened0 \in Call /\ opened0.pc = "open"
      /\ opened0.disabled = call[c].disabled /\ opened0.card = call[c].card
    BY <1>2 DEF Call
<1> HIDE DEF opened0
<1>4. /\ call' \in [Caller -> Call]
      /\ \A e \in Caller : /\ call'[e].pc = (IF e = c THEN "open" ELSE call[e].pc)
                           /\ call'[e].disabled = call[e].disabled
                           /\ call'[e].card = call[e].card
    BY <1>2, <1>3
<1>5. /\ chain' \in [Caller -> [Cards!CardOf -> Seq(Status)]]
      /\ \A e \in Caller, k \in Cards!CardOf : chain'[e][k] =
            IF e = c /\ k \in sidecar THEN Append(chain[e][k], "error") ELSE chain[e][k]
    <2>1. "error" \in Status
        BY DEF Status, Ending
    <2> QED
        BY <1>1, <1>2, <2>1, SendIs
<1>6. \A k \in Cards!CardOf : chain'[c][k] = IF k \in sidecar THEN <<"error">> ELSE << >>
    BY <1>1, <1>5, Grown DEF CallsFit
<1>7. \A k \in Cards!CardOf : k[1] = c => k \notin sidecar /\ CardIs(k) = "none"
    BY <1>1 DEF SidecarFits, Pc
<1>8. /\ lost \subseteq lost' /\ lost' \subseteq Cards!CardOf /\ sidecar' \subseteq sidecar
      /\ \A k \in Cards!CardOf \ lost' : k \in sidecar => k \notin Cards!Keeps(k[1])
    <2>1. CASE sidecar = {}
        BY <1>1, <2>1 DEF Cards!Prime, CardTypes
    <2>2. CASE sidecar # {}
        <3>1. Cards!Write(c, Cards!NewCall)
            BY <2>2 DEF Cards!Prime
        <3>2. \A a \in Attempt : Cards!NewCall.card[a] = "none"
            BY DEF Cards!NewCall
        <3>3. sidecar' \subseteq sidecar
            BY <1>1, <3>1, <3>2, WriteIs, CardIsPair
        <3> QED
            BY <1>1, <1>7, <3>1, <3>3, WriteIs
    <2> QED
        BY <2>1, <2>2
<1>9. CardTypes'
    BY <1>1, <1>4, <1>5, <1>8 DEF CardTypes
<1>10. ASSUME NEW k \in Cards!CardOf
       PROVE  /\ k[1] \in Caller /\ CardIs(k)' = CardIs(k) /\ Own(k)' = Own(k)
              /\ Pc(k)' = (IF k[1] = c THEN "open" ELSE Pc(k))
              /\ k \in sidecar => Spoken(k)'
              /\ k \notin sidecar => (Spoken(k)' <=> Spoken(k))
    <2>1. k[1] \in Caller
        BY CardIsPair
    <2>2. CardIs(k)' = CardIs(k) /\ Pc(k)' = (IF k[1] = c THEN "open" ELSE Pc(k))
        BY <1>4, <2>1 DEF CardIs, Pc
    <2>3. Own(k)' = Own(k)
        BY <1>5, <1>7, <2>1 DEF Own
    <2>4. k \in sidecar => Spoken(k)'
        <3>1. k \in sidecar => c # k[1] /\ chain'[c][k] = <<"error">>
            BY <1>6, <1>7
        <3>2. <<"error">> # << >>
            OBVIOUS
        <3> QED
            BY <3>1, <3>2 DEF Spoken
    <2>5. k \notin sidecar => (Spoken(k)' <=> Spoken(k))
        BY <1>5 DEF Spoken
    <2> QED
        BY <2>1, <2>2, <2>3, <2>4, <2>5
<1>11. ChainsFit'
    <2>1. \A k \in Cards!CardOf : Own(k)' \in Updates(CardIs(k)')
        BY <1>1, <1>10 DEF ChainsFit
    <2>2. \A k \in Cards!CardOf, e \in Caller : e # k[1] => chain'[e][k] \in {<< >>, <<"error">>}
        BY <1>1, <1>5, <1>6 DEF ChainsFit
    <2> QED
        BY <2>1, <2>2 DEF ChainsFit, Updates
<1>12. DoneFirst'
    BY <1>1, <1>10 DEF DoneFirst
<1>13. CallsFit'
    <2>1. ~call[c].disabled
        BY <1>1 DEF CallsFit
    <2>2. ASSUME NEW e \in Caller, e # c, NEW k \in Cards!CardOf PROVE chain'[e][k] = chain[e][k]
        BY <1>5, <2>2
    <2> QED
        BY <1>1, <1>4, <1>8, <1>10, <2>1, <2>2 DEF CallsFit
<1>14. SidecarFits'
    BY <1>1, <1>7, <1>8, <1>10 DEF SidecarFits
<1>15. ASSUME NEW k \in Cards!CardOf \ lost' PROVE Followed(k)'
    <2>1. Followed(k) /\ k[1] \in Caller /\ CardIs(k) \in {"none"} \cup Status
        BY <1>1, <1>8, CardOfCall DEF NotLost
    <2>2. CASE k \in sidecar
        <3>1. k \notin Cards!Keeps(k[1]) /\ k[1] # c
            BY <1>7, <1>8, <2>2
        <3>2. CardIs(k) # "none" => Pc(k) \notin {"open", "settling"} /\ Own(k) = << >>
            BY <3>1, CardIsPair DEF Cards!Keeps, Cards!Open, CardIs, Pc, Own
        <3>3. Pc(k) # "idle"
            BY <1>1, <2>2, <3>1 DEF SidecarFits
        <3>4. Pc(k) = "done" /\ CardIs(k) # "running"
            BY <1>1, <2>1, <2>2, <3>2, <3>3, CardOfCall DEF SidecarFits, Followed, Pc, Call
        <3>5. Own(k) = << >>
            BY <1>1, <3>2 DEF ChainsFit, Updates
        <3> QED
            BY <1>1, <1>10, <2>1, <2>2, <3>1, <3>4, <3>5 DEF Followed, Ending
    <2>3. CASE k \notin sidecar
        <3>1. k[1] = c => CardIs(k) = "none" /\ host[k] = "none" /\ ~Spoken(k)
            BY <1>1, <1>7, <2>1 DEF Followed, Pc
        <3> QED
            BY <1>1, <1>10, <2>1, <2>3, <3>1 DEF Followed, Ending
    <2> QED
        BY <2>2, <2>3
<1> QED
    BY <1>9, <1>11, <1>12, <1>13, <1>14, <1>15 DEF CardsSound, NotLost

\* A save of c changes one attempt, which was not done, and c sends and keeps what it observes.
LEMMA SaveSends ==
    ASSUME CardTypes, NEW c \in Caller, Cards!Save(c)
    PROVE  /\ attempt' \in [Attempt -> {"none", "running", "done", "failed"}]
           /\ \A a \in Attempt : attempt[a] = "done" => attempt'[a] = "done"
           /\ Cards!Observe(c, attempt') /\ host' = host
<1>1. PICK a \in Attempt, status \in {"running", "done", "failed"} :
          /\ attempt[a] = (IF status = "running" THEN "none" ELSE "running")
          /\ attempt' = [attempt EXCEPT ![a] = status] /\ Cards!Observe(c, attempt')
    BY DEF Cards!Save
<1> QED
    BY <1>1 DEF CardTypes, Cards!Save

LEMMA ObserveSound ==
    ASSUME CardsSound, NEW c \in Caller, Cards!Observe(c, attempt'), host' = host,
           attempt' \in [Attempt -> {"none", "running", "done", "failed"}],
           \A a \in Attempt : attempt[a] = "done" => attempt'[a] = "done"
    PROVE  CardsSound'
<1> DEFINE seen == IF call[c].disabled \/ call[c].pc # "open" THEN {} ELSE Cards!Observed(c, attempt')
           card == [a \in Attempt |-> IF a \in seen THEN Cards!Card(attempt'[a]) ELSE call[c].card[a]]
           l == [call[c] EXCEPT !.card = card]
           update == [k \in {c} \X seen |-> Cards!Card(attempt'[k[2]])]
<1>1. CardTypes /\ ChainsFit /\ DoneFirst /\ CallsFit /\ NotLost /\ SidecarFits
      /\ call \in [Caller -> Call] /\ call[c] \in Call
    BY DEF CardsSound, CardTypes
<1>2. /\ seen \subseteq Attempt
      /\ seen # {} => call[c].pc = "open" /\ ~call[c].disabled
      /\ \A a \in seen : /\ call[c].card[a] \in {"none", "running"}
                         /\ call[c].card[a] # Cards!Card(attempt'[a]) /\ attempt'[a] # "none"
    BY DEF Cards!Observed
<1>3. \A a \in seen : /\ Cards!Card(attempt'[a]) \in Status
                      /\ Cards!Card(attempt'[a]) = "completed" => attempt'[a] = "done"
    BY <1>2 DEF Cards!Card, Status, Ending
<1>4. /\ call' = [call EXCEPT ![c] = l] /\ Cards!Send(c, update)
      /\ IF seen = {} THEN UNCHANGED <<sidecar, lost>> ELSE Cards!Write(c, l)
    <2>1. /\ call' = [call EXCEPT ![c] = [call[c] EXCEPT
                 !.card = [a \in Attempt |-> IF a \in seen THEN Cards!Card(attempt'[a]) ELSE @[a]]]]
          /\ Cards!Send(c, update)
          /\ IF seen = {} THEN UNCHANGED <<sidecar, lost>> ELSE Cards!Write(c, l)
        BY DEF Cards!Observe
    <2> QED
        BY <2>1
<1> HIDE DEF seen
<1>5. card \in [Attempt -> {"none"} \cup Status]
      /\ \A a \in Attempt : card[a] = IF a \in seen THEN Cards!Card(attempt'[a]) ELSE call[c].card[a]
    BY <1>1, <1>3 DEF Call
<1>6. DOMAIN update = {c} \X seen /\ \A k \in {c} \X seen : update[k] = Cards!Card(attempt'[k[2]])
    OBVIOUS
<1> HIDE DEF card, update
<1>7. l \in Call /\ l.pc = call[c].pc /\ l.disabled = call[c].disabled /\ l.card = card
    BY <1>1, <1>5 DEF Call
<1> HIDE DEF l
<1>8. /\ call' \in [Caller -> Call]
      /\ \A e \in Caller : /\ call'[e].pc = call[e].pc /\ call'[e].disabled = call[e].disabled
                           /\ call'[e].card = IF e = c THEN card ELSE call[e].card
    BY <1>1, <1>4, <1>7
\* The cards of which c hears something new, and what.
<1> DEFINE New(k) == k[1] = c /\ k[2] \in seen
           said(k) == Cards!Card(attempt'[k[2]])
<1>9. /\ chain' \in [Caller -> [Cards!CardOf -> Seq(Status)]]
      /\ \A e \in Caller, k \in Cards!CardOf : chain'[e][k] =
            IF e = c /\ New(k) THEN Append(chain[e][k], said(k)) ELSE chain[e][k]
    <2>1. \A k \in Cards!CardOf : k \in DOMAIN update <=> New(k)
        BY <1>6, CardIsPair
    <2>2. \A k \in Cards!CardOf : k \in DOMAIN update => update[k] = said(k) /\ update[k] \in Status
        BY <1>3, <1>6
    <2> QED
        BY <1>1, <1>4, <2>1, <2>2, SendIs
<1>10. ASSUME NEW k \in Cards!CardOf
       PROVE  /\ k[1] \in Caller /\ k[2] \in Attempt
              /\ CardIs(k)' = (IF New(k) THEN said(k) ELSE CardIs(k))
              /\ Own(k)' = (IF New(k) THEN Append(Own(k), said(k)) ELSE Own(k))
              /\ Spoken(k)' = Spoken(k) /\ Pc(k)' = Pc(k)
    <2>1. k[1] \in Caller /\ k[2] \in Attempt
        BY CardIsPair
    <2>2. CardIs(k)' = (IF New(k) THEN said(k) ELSE CardIs(k)) /\ Pc(k)' = Pc(k)
        BY <1>5, <1>8, <2>1 DEF CardIs, Pc
    <2>3. Own(k)' = (IF New(k) THEN Append(Own(k), said(k)) ELSE Own(k))
        BY <1>9, <2>1 DEF Own
    <2>4. \A e \in Caller : e # k[1] => chain'[e][k] = chain[e][k]
        BY <1>9
    <2> QED
        BY <2>1, <2>2, <2>3, <2>4 DEF Spoken
<1>11. ASSUME NEW k \in Cards!CardOf, New(k)
       PROVE  /\ Pc(k) = "open" /\ ~call[c].disabled /\ said(k) \in Status
              /\ CardIs(k) \in {"none", "running"} /\ CardIs(k) # said(k)
              /\ CardIs(k) = "none" => Own(k) = << >> /\ Own(k)' = <<said(k)>>
              /\ CardIs(k) = "running" =>
                  /\ said(k) \in Ending
                  /\ \/ Own(k) = << >> /\ Own(k)' = <<said(k)>>
                     \/ Own(k) = <<"running">> /\ Own(k)' = <<"running", said(k)>>
    <2>1. /\ Pc(k) = "open" /\ ~call[c].disabled /\ said(k) \in Status
          /\ CardIs(k) \in {"none", "running"} /\ CardIs(k) # said(k)
        BY <1>2, <1>3, <1>11 DEF Pc, CardIs
    <2>2. /\ CardIs(k) = "none" => Own(k) = << >>
          /\ CardIs(k) = "running" => Own(k) = << >> \/ Own(k) = <<"running">>
        BY <1>1 DEF ChainsFit, Updates
    <2>3. Own(k)' = Append(Own(k), said(k))
        BY <1>10, <1>11
    <2>4. said(k) # "running" => said(k) \in Ending
        BY <2>1 DEF Status
    <2> HIDE DEF said
    <2>5. Append(<< >>, said(k)) = <<said(k)>>
        BY Grown
    <2>6. Append(<<"running">>, said(k)) = <<"running", said(k)>>
        BY <2>1, Grown DEF Status
    <2>7. Own(k) = << >> => Own(k)' = <<said(k)>>
        BY <2>3, <2>5
    <2>8. Own(k) = <<"running">> => Own(k)' = <<"running", said(k)>>
        BY <2>3, <2>6
    <2> QED
        BY <2>1, <2>2, <2>4, <2>7, <2>8
<1> HIDE DEF New, said
<1>12. /\ lost \subseteq lost' /\ lost' \subseteq Cards!CardOf /\ sidecar' \subseteq Cards!CardOf
       /\ \A k \in sidecar' \ sidecar : k[1] = c /\ CardIs(k)' = "running"
       /\ \A k \in Cards!CardOf \ lost' :
           /\ k[1] = c /\ CardIs(k)' = "running" /\ seen # {} => k \in sidecar'
           /\ k[1] # c /\ k \in sidecar => k \notin Cards!Keeps(k[1]) \/ k \in sidecar'
    <2>1. CASE seen = {}
        BY <1>1, <1>4, <2>1 DEF CardTypes
    <2>2. CASE seen # {}
        <3>1. Cards!Write(c, l) /\ ~l.disabled
            BY <1>2, <1>4, <1>7, <2>2
        <3>2. \A k \in Cards!CardOf : k[1] = c => CardIs(k)' = l.card[k[2]]
            BY <1>7, <1>8, CardIsPair DEF CardIs
        <3>3. /\ lost \subseteq lost' /\ lost' \subseteq Cards!CardOf /\ sidecar' \subseteq Cards!CardOf
              /\ \A k \in sidecar' \ sidecar : k[1] = c /\ l.card[k[2]] = "running"
              /\ \A k \in Cards!CardOf \ lost' :
                  /\ k[1] = c /\ l.card[k[2]] = "running" /\ ~l.disabled => k \in sidecar'
                  /\ k[1] # c /\ k \in sidecar => k \notin Cards!Keeps(k[1])
            BY <1>1, <3>1, WriteIs
        <3> QED
            BY <3>1, <3>2, <3>3
    <2> QED
        BY <2>1, <2>2
<1>13. CardTypes'
    BY <1>1, <1>8, <1>9, <1>12 DEF CardTypes
<1>14. ChainsFit'
    <2>1. ASSUME NEW k \in Cards!CardOf PROVE Own(k)' \in Updates(CardIs(k)')
        <3>1. CASE New(k)
            <4>1. said(k) \in {"running", "completed", "error"}
                BY <1>11, <3>1 DEF Status, Ending
            <4> QED
                BY <1>10, <1>11, <3>1, <4>1 DEF Updates, Ending
        <3>2. CASE ~New(k)
            BY <1>1, <1>10, <3>2 DEF ChainsFit
        <3> QED
            BY <3>1, <3>2
    <2>2. ASSUME NEW k \in Cards!CardOf, NEW e \in Caller, e # k[1]
          PROVE  chain'[e][k] \in {<< >>, <<"error">>}
        <3>1. chain'[e][k] = chain[e][k]
            BY <1>9, <2>2 DEF New
        <3> QED
            BY <1>1, <2>2, <3>1 DEF ChainsFit
    <2> QED
        BY <2>1, <2>2 DEF ChainsFit, Updates
<1>15. DoneFirst'
    <2>1. ASSUME NEW k \in Cards!CardOf, CardIs(k)' = "completed" \/ host[k] = "completed"
          PROVE  attempt'[k[2]] = "done"
        <3>1. CASE New(k) /\ CardIs(k)' = "completed"
            BY <1>3, <1>10, <3>1 DEF New, said
        <3>2. CASE CardIs(k) = "completed" \/ host[k] = "completed"
            BY <1>1, <1>10, <3>2 DEF DoneFirst
        <3> QED
            BY <1>10, <2>1, <3>1, <3>2
    <2> QED
        BY <2>1 DEF DoneFirst
<1>16. CallsFit'
    <2>1. ASSUME NEW e \in Caller, call'[e].pc = "idle" \/ call'[e].disabled, NEW k \in Cards!CardOf
          PROVE  chain'[e][k] = chain[e][k] /\ (k[1] = e => CardIs(k)' = CardIs(k))
        <3>1. ~(e = c /\ New(k))
            BY <1>8, <1>11, <2>1 DEF New, Pc
        <3> QED
            BY <1>9, <1>10, <3>1 DEF New
    <2> QED
        BY <1>1, <1>8, <1>12, <2>1 DEF CallsFit
<1>17. SidecarFits'
    <2>1. ASSUME NEW k \in Cards!CardOf PROVE Pc(k)' = "idle" => CardIs(k)' = "none"
        BY <1>1, <1>10, <1>11 DEF SidecarFits
    <2>2. ASSUME NEW k \in sidecar', CardIs(k)' = "none" PROVE Pc(k)' = "done"
        <3>1. k \in Cards!CardOf /\ k \in sidecar
            BY <1>12, <2>2
        <3>2. "none" \notin Status
            BY DEF Status, Ending
        <3>3. CardIs(k) = "none"
            BY <1>10, <1>11, <2>2, <3>1, <3>2
        <3> QED
            BY <1>1, <1>10, <3>1, <3>3 DEF SidecarFits
    <2> QED
        BY <2>1, <2>2 DEF SidecarFits
<1>18. ASSUME NEW k \in Cards!CardOf \ lost' PROVE Followed(k)'
    <2>1. Followed(k) /\ k[1] \in Caller /\ CardIs(k) \in {"none"} \cup Status
        BY <1>1, <1>12, CardOfCall DEF NotLost
    <2>2. \A e \in Caller : Cards!Open(e)' = Cards!Open(e)
        BY <1>8 DEF Cards!Open
    <2>3. CASE New(k)
        <3>1. /\ Pc(k)' = "open" /\ CardIs(k)' = said(k) /\ ~Spoken(k)' /\ said(k) \in Status
            BY <1>10, <1>11, <2>1, <2>3 DEF Followed
        <3>2. said(k) = "running" => CardIs(k) = "none" /\ Own(k)' # << >> /\ host[k] = "none" /\ k \in sidecar'
            <4>1. said(k) = "running" => CardIs(k) = "none"
                BY <1>11, <2>3
            <4>2. CardIs(k) = "none" => host[k] = "none" /\ Own(k)' = <<said(k)>>
                BY <1>11, <2>1, <2>3 DEF Followed
            <4>3. <<said(k)>> # << >>
                OBVIOUS
            <4>4. said(k) = "running" => k \in sidecar'
                BY <1>12, <2>3, <3>1 DEF New
            <4> QED
                BY <4>1, <4>2, <4>3, <4>4
        <3>3. Own(k)' # << >>
            <4>1. \A x : <<x>> # << >> /\ <<"running", x>> # << >>
                OBVIOUS
            <4> QED
                BY <1>11, <2>3, <4>1
        <3>4. Own(k)' = <<"running", said(k)>> => host[k] = "none"
            <4>1. \A x, y : <<x>> # <<y, x>>
                OBVIOUS
            <4>2. Own(k)' = <<"running", said(k)>> => CardIs(k) = "running" /\ Own(k) = <<"running">>
                BY <1>11, <2>3, <4>1
            <4> QED
                BY <2>1, <4>2 DEF Followed
        <3> QED
            BY <3>1, <3>2, <3>3, <3>4 DEF Followed, Ending, Status
    <2>4. CASE ~New(k) /\ k[1] = c
        <3>1. CardIs(k)' = CardIs(k) /\ Own(k)' = Own(k) /\ Spoken(k)' = Spoken(k) /\ Pc(k)' = Pc(k)
            BY <1>10, <2>4
        <3>2. CardIs(k) = "running" => k \in sidecar'
            BY <1>4, <1>12, <2>1, <2>4, <3>1 DEF Followed
        <3>3. CardIs(k) = "none" /\ Pc(k) = "done" => seen = {}
            BY <1>2, <2>4 DEF Pc
        <3> QED
            BY <1>4, <2>1, <2>2, <3>1, <3>2, <3>3 DEF Followed
    <2>5. CASE k[1] # c
        <3>1. CardIs(k)' = CardIs(k) /\ Own(k)' = Own(k) /\ Spoken(k)' = Spoken(k) /\ Pc(k)' = Pc(k)
            BY <1>10, <2>5 DEF New
        <3>2. CardIs(k) = "running" => k \in Cards!Keeps(k[1])
            BY <2>1, CardIsPair DEF Followed, Pc, CardIs, Cards!Keeps, Cards!Open
        <3>3. seen # {} => Cards!Open(c)
            BY <1>2 DEF Cards!Open
        <3> QED
            BY <1>4, <1>12, <2>1, <2>2, <2>5, <3>1, <3>2, <3>3 DEF Followed
    <2> QED
        BY <2>3, <2>4, <2>5
<1> QED
    BY <1>13, <1>14, <1>15, <1>16, <1>17, <1>18 DEF CardsSound, NotLost

LEMMA SaveSoundOfCards == ASSUME CardsSound, NEW c \in Caller, Cards!Save(c) PROVE CardsSound'
BY SaveSends, ObserveSound DEF CardsSound

\* The host is told the first update of the card k by c, or refuses it.
LEMMA DeliverIs ==
    ASSUME CardsSound, NEW c \in Caller, NEW k \in Cards!CardOf, Cards!Deliver(c, k)
    PROVE  /\ UNCHANGED <<attempt, sidecar>>
           /\ chain[c][k] # << >>
           /\ chain' = [chain EXCEPT ![c][k] = Cards!Without(chain[c][k], 1)]
           /\ host' = host \/ host' = [host EXCEPT ![k] = chain[c][k][1]]
           /\ call' \in [Caller -> Call]
           /\ \A e \in Caller : call'[e].pc = call[e].pc /\ call'[e].card = call[e].card
           /\ lost \subseteq lost' /\ lost' \subseteq Cards!CardOf
           /\ k \notin lost' => host' = [host EXCEPT ![k] = chain[c][k][1]]
           /\ \A e \in Caller : call'[e].disabled /\ ~call[e].disabled =>
                  e = c /\ Cards!Running(c, call[c]) \cup {m \in Cards!CardOf : chain[c][m] # << >>} \subseteq lost'
<1>1. CardTypes /\ CallsFit /\ call \in [Caller -> Call] /\ call[c] \in Call
    BY DEF CardsSound, CardTypes
<1>2. chain[c][k] \in Seq(Status)
    BY <1>1 DEF CardTypes
<1>3. PICK i \in Cards!Turn(chain[c][k]) :
        /\ chain' = [chain EXCEPT ![c][k] = Cards!Without(@, i)]
        /\ \/ Cards!Hears(c, k, i) /\ call' = [call EXCEPT ![c].failures = 0] /\ UNCHANGED <<lost, refusals>>
           \/ /\ call[c].disabled /\ UNCHANGED <<call, host, lost, refusals>>
           \/ /\ ~call[c].disabled /\ Cards!Fault /\ (Cards!Hears(c, k, i) \/ UNCHANGED host)
              /\ LET off == call[c].failures = 1 IN
                 /\ call' = [call EXCEPT ![c].failures = @ + 1, ![c].disabled = off]
                 /\ lost' = lost \cup {k} \cup
                       (IF off THEN Cards!Running(c, call[c]) \cup {m \in Cards!CardOf : chain[c][m] # << >>}
                        ELSE {})
    BY DEF Cards!Deliver
<1>4. i = 1 /\ 1 \in 1..Len(chain[c][k])
    BY <1>3 DEF Cards!Turn
<1>5. chain[c][k] # << >>
    BY <1>2, <1>4
<1>6. chain' = [chain EXCEPT ![c][k] = Cards!Without(chain[c][k], 1)]
    BY <1>1, <1>3, <1>4
<1>7. UNCHANGED <<attempt, sidecar>>
    BY DEF Cards!Deliver
<1>8. CASE Cards!Hears(c, k, i) /\ call' = [call EXCEPT ![c].failures = 0] /\ UNCHANGED <<lost, refusals>>
    <2>1. /\ call' \in [Caller -> Call]
          /\ \A e \in Caller : /\ call'[e].pc = call[e].pc /\ call'[e].card = call[e].card
                               /\ call'[e].disabled = call[e].disabled
        BY <1>1, <1>8 DEF Call
    <2>2. host' = [host EXCEPT ![k] = chain[c][k][1]] /\ lost' = lost /\ lost \subseteq Cards!CardOf
        BY <1>1, <1>4, <1>8 DEF Cards!Hears, CardTypes
    <2> QED
        BY <1>5, <1>6, <1>7, <2>1, <2>2
<1>9. CASE call[c].disabled /\ UNCHANGED <<call, host, lost, refusals>>
    <2>1. k \in lost
        BY <1>1, <1>5, <1>9 DEF CallsFit
    <2>2. lost \subseteq Cards!CardOf
        BY <1>1 DEF CardTypes
    <2> QED
        BY <1>1, <1>5, <1>6, <1>7, <1>9, <2>1, <2>2
<1>10. CASE /\ ~call[c].disabled /\ Cards!Fault /\ (Cards!Hears(c, k, i) \/ UNCHANGED host)
            /\ LET off == call[c].failures = 1 IN
               /\ call' = [call EXCEPT ![c].failures = @ + 1, ![c].disabled = off]
               /\ lost' = lost \cup {k} \cup
                     (IF off THEN Cards!Running(c, call[c]) \cup {m \in Cards!CardOf : chain[c][m] # << >>}
                      ELSE {})
    <2> DEFINE off == call[c].failures = 1
               n == call[c].failures + 1
               failed == [call[c] EXCEPT !.failures = n, !.disabled = off]
    <2>1. off \in BOOLEAN /\ n \in Nat /\ call' = [call EXCEPT ![c].failures = n, ![c].disabled = off]
        BY <1>1, <1>10 DEF Call
    <2>2. lost' = lost \cup {k} \cup
              (IF off THEN Cards!Running(c, call[c]) \cup {m \in Cards!CardOf : chain[c][m] # << >>} ELSE {})
        BY <1>10
    <2> HIDE DEF off, n
    <2>3. call' = [call EXCEPT ![c] = failed] /\ failed \in Call /\ failed.pc = call[c].pc
          /\ failed.card = call[c].card /\ failed.disabled = off
        BY <1>1, <2>1 DEF Call
    <2> HIDE DEF failed
    <2>4. /\ call' \in [Caller -> Call]
          /\ \A e \in Caller : /\ call'[e].pc = call[e].pc /\ call'[e].card = call[e].card
                               /\ call'[e].disabled = (IF e = c THEN off ELSE call[e].disabled)
        BY <1>1, <2>3
    <2>5. host' = host \/ host' = [host EXCEPT ![k] = chain[c][k][1]]
        BY <1>4, <1>10 DEF Cards!Hears
    <2>6. lost \subseteq lost' /\ lost' \subseteq Cards!CardOf /\ k \in lost'
        BY <1>1, <2>2, RunningIs DEF CardTypes
    <2>7. off => Cards!Running(c, call[c]) \cup {m \in Cards!CardOf : chain[c][m] # << >>} \subseteq lost'
        BY <2>2
    <2> QED
        BY <1>5, <1>6, <1>7, <2>4, <2>5, <2>6, <2>7
<1> QED
    BY <1>3, <1>8, <1>9, <1>10

\* What the update is, and what is left to be said.
LEMMA Said ==
    ASSUME CardsSound, NEW c \in Caller, NEW k \in Cards!CardOf, chain[c][k] # << >>
    PROVE  LET said == chain[c][k][1]
               rest == Cards!Without(chain[c][k], 1) IN
           /\ c # k[1] => said = "error" /\ rest = << >>
           /\ c = k[1] =>
               /\ CardIs(k) = "running" => Own(k) = <<"running">> /\ said = "running" /\ rest = << >>
               /\ CardIs(k) # "running" =>
                   /\ CardIs(k) \in Ending
                   /\ \/ said = CardIs(k) /\ rest = << >>
                      \/ Own(k) = <<"running", CardIs(k)>> /\ said = "running" /\ rest = <<CardIs(k)>>
<1> DEFINE said == chain[c][k][1]
           rest == Cards!Without(chain[c][k], 1)
<1>1. CASE c # k[1]
    <2>1. chain[c][k] = <<"error">>
        BY <1>1 DEF CardsSound, ChainsFit
    <2> QED
        BY <1>1, <2>1, Rest
<1>2. CASE c = k[1]
    <2>1. Own(k) \in Updates(CardIs(k)) /\ Own(k) # << >> /\ Own(k) = chain[c][k]
        BY <1>2 DEF CardsSound, ChainsFit, Own
    <2>2. CardIs(k) \in {"none"} \cup Status
        BY CardOfCall DEF CardsSound
    <2>3. CASE CardIs(k) = "running"
        <3>1. chain[c][k] = <<"running">> /\ Own(k) = <<"running">>
            BY <2>1, <2>3 DEF Updates
        <3> QED
            BY <1>2, <2>3, <3>1, Rest
    <2>4. CASE CardIs(k) # "running"
        <3>1. CardIs(k) \in Ending
            BY <2>1, <2>2, <2>4 DEF Updates, Status
        <3>2. CASE Own(k) = <<CardIs(k)>>
            BY <1>2, <2>1, <2>4, <3>1, <3>2, Rest
        <3>3. CASE Own(k) = <<"running", CardIs(k)>>
            <4>1. <<"running", CardIs(k)>>[1] = "running"
                OBVIOUS
            <4> QED
                BY <1>2, <2>1, <2>4, <3>1, <3>3, <4>1, Rest
        <3> QED
            BY <2>1, <3>1, <3>2, <3>3 DEF Updates, Ending
    <2> QED
        BY <2>3, <2>4
<1> QED
    BY <1>1, <1>2

LEMMA DeliverSound ==
    ASSUME CardsSound, NEW c \in Caller, NEW k \in Cards!CardOf, Cards!Deliver(c, k)
    PROVE  CardsSound' /\ (k \notin lost' /\ host[k] \in Ending => host'[k] # "running")
<1> DEFINE said == chain[c][k][1]
           rest == Cards!Without(chain[c][k], 1)
<1>1. CardTypes /\ ChainsFit /\ DoneFirst /\ CallsFit /\ NotLost /\ SidecarFits
    BY DEF CardsSound
<1>2. /\ UNCHANGED <<attempt, sidecar>>
      /\ chain[c][k] # << >>
      /\ chain' = [chain EXCEPT ![c][k] = rest]
      /\ host' = host \/ host' = [host EXCEPT ![k] = said]
      /\ call' \in [Caller -> Call]
      /\ \A e \in Caller : call'[e].pc = call[e].pc /\ call'[e].card = call[e].card
      /\ lost \subseteq lost' /\ lost' \subseteq Cards!CardOf
      /\ k \notin lost' => host' = [host EXCEPT ![k] = said]
      /\ \A e \in Caller : call'[e].disabled /\ ~call[e].disabled =>
             e = c /\ Cards!Running(c, call[c]) \cup {m \in Cards!CardOf : chain[c][m] # << >>} \subseteq lost'
    BY DeliverIs
<1>3. /\ c # k[1] => said = "error" /\ rest = << >>
      /\ c = k[1] =>
          /\ CardIs(k) = "running" => Own(k) = <<"running">> /\ said = "running" /\ rest = << >>
          /\ CardIs(k) # "running" =>
              /\ CardIs(k) \in Ending
              /\ \/ said = CardIs(k) /\ rest = << >>
                 \/ Own(k) = <<"running", CardIs(k)>> /\ said = "running" /\ rest = <<CardIs(k)>>
    BY <1>2, Said
<1> HIDE DEF said, rest
<1>4. said \in Status /\ rest \in Seq(Status)
    <2>1. \A x \in Status : <<x>> \in Seq(Status)
        OBVIOUS
    <2>2. << >> \in Seq(Status)
        OBVIOUS
    <2> QED
        BY <1>3, <2>1, <2>2 DEF Status, Ending
<1>5. \A e \in Caller, m \in Cards!CardOf : chain'[e][m] = IF e = c /\ m = k THEN rest ELSE chain[e][m]
    BY <1>1, <1>2 DEF CardTypes
<1>6. \A m \in Cards!CardOf : /\ m # k => host'[m] = host[m]
                              /\ host'[m] \in {host[m], IF m = k THEN said ELSE host[m]}
    BY <1>1, <1>2 DEF CardTypes
<1>7. k \notin lost' => host'[k] = said
    BY <1>1, <1>2 DEF CardTypes
<1>8. CardTypes'
    <2>1. chain' \in [Caller -> [Cards!CardOf -> Seq(Status)]]
        BY <1>1, <1>2, <1>4 DEF CardTypes
    <2>2. host' \in [Cards!CardOf -> {"none"} \cup Status]
        BY <1>1, <1>2, <1>4 DEF CardTypes
    <2> QED
        BY <1>1, <1>2, <2>1, <2>2 DEF CardTypes
<1>9. \A m \in Cards!CardOf :
        /\ m[1] \in Caller /\ CardIs(m)' = CardIs(m) /\ Pc(m)' = Pc(m)
        /\ Own(m)' = (IF c = k[1] /\ m = k THEN rest ELSE Own(m))
    BY <1>2, <1>5, CardIsPair DEF CardIs, Pc, Own
<1>10. \A m \in Cards!CardOf : /\ Spoken(m)' => Spoken(m)
                               /\ m # k \/ c = k[1] => (Spoken(m)' <=> Spoken(m))
    <2>1. ASSUME NEW m \in Cards!CardOf, NEW e \in Caller, e # m[1], chain'[e][m] # << >>
          PROVE  chain[e][m] # << >>
        BY <1>2, <1>5, <2>1
    <2>2. ASSUME NEW m \in Cards!CardOf, m # k \/ c = k[1], NEW e \in Caller, e # m[1]
          PROVE  chain'[e][m] = chain[e][m]
        BY <1>5, <2>2
    <2> QED
        BY <2>1, <2>2 DEF Spoken
<1>11. ChainsFit'
    <2>1. ASSUME NEW m \in Cards!CardOf PROVE Own(m)' \in Updates(CardIs(m)')
        <3>1. CASE c = k[1] /\ m = k
            <4>1. CardIs(k) \in {"running", "completed", "error"} /\ rest \in {<< >>, <<CardIs(k)>>}
                  /\ (CardIs(k) = "running" => rest = << >>)
                BY <1>3, <3>1 DEF Ending
            <4> QED
                BY <1>9, <3>1, <4>1 DEF Updates
        <3>2. CASE ~(c = k[1] /\ m = k)
            BY <1>1, <1>9, <3>2 DEF ChainsFit
        <3> QED
            BY <3>1, <3>2
    <2>2. ASSUME NEW m \in Cards!CardOf, NEW e \in Caller, e # m[1]
          PROVE  chain'[e][m] \in {<< >>, <<"error">>}
        BY <1>1, <1>3, <1>5, <2>2 DEF ChainsFit
    <2> QED
        BY <2>1, <2>2 DEF ChainsFit, Updates
<1>12. DoneFirst'
    <2>1. ASSUME said = "completed" PROVE attempt[k[2]] = "done"
        <3>1. CardIs(k) = "completed"
            BY <1>3, <2>1
        <3> QED
            BY <1>1, <3>1 DEF DoneFirst
    <2> QED
        BY <1>1, <1>2, <1>6, <1>9, <2>1 DEF DoneFirst
<1>13. CallsFit'
    <2>1. ASSUME NEW e \in Caller, call'[e].pc = "idle"
          PROVE  ~call'[e].disabled /\ \A m \in Cards!CardOf : chain'[e][m] = << >>
        <3>1. ~call[e].disabled /\ \A m \in Cards!CardOf : chain[e][m] = << >>
            BY <1>1, <1>2, <2>1 DEF CallsFit
        <3>2. e # c
            BY <1>2, <3>1
        <3> QED
            BY <1>2, <1>5, <3>1, <3>2
    <2>2. ASSUME NEW e \in Caller, call'[e].disabled, NEW m \in Cards!CardOf,
                 chain'[e][m] # << >> \/ (m[1] = e /\ CardIs(m)' = "running")
          PROVE  m \in lost'
        <3>1. chain[e][m] # << >> \/ (m[1] = e /\ CardIs(m) = "running")
            BY <1>2, <1>5, <1>9, <2>2
        <3>2. CASE call[e].disabled
            BY <1>1, <1>2, <3>1, <3>2 DEF CallsFit
        <3>3. CASE ~call[e].disabled
            <4>1. e = c /\ Cards!Running(c, call[c]) \cup {i \in Cards!CardOf : chain[c][i] # << >>} \subseteq lost'
                BY <1>2, <2>2, <3>3
            <4>2. m[1] = c /\ CardIs(m) = "running" => m \in Cards!Running(c, call[c])
                BY RunningIs DEF CardIs
            <4> QED
                BY <3>1, <4>1, <4>2
        <3> QED
            BY <3>2, <3>3
    <2> QED
        BY <2>1, <2>2 DEF CallsFit
<1>14. SidecarFits'
    BY <1>1, <1>2, <1>9 DEF SidecarFits
<1>15. \A e \in Caller : Cards!Open(e)' = Cards!Open(e)
    BY <1>2 DEF Cards!Open
<1>16. ASSUME NEW m \in Cards!CardOf \ lost', m # k PROVE Followed(m)'
    <2>1. Followed(m)
        BY <1>1, <1>2 DEF NotLost
    <2> QED
        BY <1>2, <1>6, <1>9, <1>10, <1>15, <1>16, <2>1 DEF Followed
<1>17. ASSUME k \notin lost' PROVE Followed(k)' /\ (host[k] \in Ending => host'[k] # "running")
    <2>1. Followed(k) /\ host'[k] = said /\ CardIs(k)' = CardIs(k) /\ Pc(k)' = Pc(k)
        BY <1>1, <1>2, <1>7, <1>9, <1>17 DEF NotLost
    <2>2. CASE c # k[1]
        <3>1. said = "error" /\ Spoken(k) /\ Own(k)' = Own(k)
            BY <1>2, <1>3, <1>9, <2>2 DEF Spoken
        <3>2. Pc(k) = "done" /\ Own(k) = << >>
            BY <2>1, <3>1 DEF Followed
        <3>3. CardIs(k) # "running" /\ (CardIs(k) \in Ending => <<"running", CardIs(k)>> # << >>)
            BY <2>1, <3>2 DEF Followed
        <3> QED
            BY <2>1, <3>1, <3>2, <3>3 DEF Followed, Ending
    <2>3. CASE c = k[1]
        <3>1. Own(k)' = rest /\ Own(k) # << >> /\ ~Spoken(k) /\ ~Spoken(k)'
            BY <1>2, <1>9, <1>10, <2>1, <2>3 DEF Followed, Own
        <3>2. CASE CardIs(k) = "running"
            BY <1>2, <1>3, <2>1, <2>3, <3>1, <3>2 DEF Followed, Ending
        <3>3. CASE CardIs(k) # "running"
            <4>1. CardIs(k) \in Ending
                BY <1>3, <2>3, <3>3
            <4>2. CASE said = CardIs(k) /\ rest = << >>
                <5>1. <<"running", CardIs(k)>> # << >>
                    OBVIOUS
                <5> QED
                    BY <2>1, <3>1, <4>1, <4>2, <5>1 DEF Followed, Ending
            <4>3. CASE Own(k) = <<"running", CardIs(k)>> /\ said = "running" /\ rest = <<CardIs(k)>>
                <5>1. <<CardIs(k)>> # << >> /\ <<CardIs(k)>> # <<"running", CardIs(k)>>
                    OBVIOUS
                <5>2. host[k] = "none"
                    BY <2>1, <4>1, <4>3 DEF Followed
                <5> QED
                    BY <2>1, <3>1, <4>1, <4>3, <5>1, <5>2 DEF Followed, Ending
            <4> QED
                BY <1>3, <2>3, <3>3, <4>2, <4>3
        <3> QED
            BY <3>2, <3>3
    <2> QED
        BY <2>2, <2>3
<1> QED
    BY <1>8, <1>11, <1>12, <1>13, <1>14, <1>16, <1>17 DEF CardsSound, NotLost

-----------------------------------------------------------------------------
(* The cards: the theorem.                                                 *)

LEMMA CardsNext == ASSUME CardsSound, Cards!Next PROVE CardsSound' /\ Cards!CardsFollow
<1>1. ASSUME CardsSound', \A k \in Cards!CardOf : k \notin lost' /\ host[k] \in Ending => host'[k] # "running"
      PROVE  Cards!CardsFollow
    BY <1>1 DEF CardsSound, DoneFirst, Cards!CardsFollow, Ending
<1>2. CASE host' = host
    <2>1. CardsSound'
        <3>1. CASE Cards!Crash
            BY <3>1, CrashSound
        <3>2. CASE \E c \in Caller : Cards!Prime(c) \/ Cards!Lease(c) \/ Cards!Save(c)
            BY <3>2, PrimeSound, LeaseSound, SaveSoundOfCards
        <3>3. CASE \E c \in Caller : Cards!Settle(c) \/ Cards!Settled(c)
            BY <3>3, SettleSound, SettledSound
        <3>4. CASE \E c \in Caller, k \in Cards!CardOf : Cards!Deliver(c, k)
            BY <3>4, DeliverSound
        <3> QED
            BY <3>1, <3>2, <3>3, <3>4 DEF Cards!Next
    <2>2. \A k \in Cards!CardOf : host[k] \in Ending => host'[k] # "running"
        BY <1>2 DEF Ending
    <2> QED
        BY <1>1, <2>1, <2>2
<1>3. CASE host' # host
    <2>1. PICK c \in Caller, k \in Cards!CardOf : Cards!Deliver(c, k)
        BY <1>3 DEF Cards!Next, Cards!Crash, Cards!Prime, Cards!Lease, Cards!Save, Cards!Settle, Cards!Settled
    <2>2. CardsSound' /\ (k \notin lost' /\ host[k] \in Ending => host'[k] # "running")
        BY <2>1, DeliverSound
    <2>3. \A m \in Cards!CardOf : m # k => host'[m] = host[m]
        BY <2>1, DeliverIs DEF CardsSound, CardTypes
    <2>4. \A m \in Cards!CardOf : m \notin lost' /\ host[m] \in Ending => host'[m] # "running"
        BY <2>2, <2>3 DEF Ending
    <2> QED
        BY <1>1, <2>2, <2>4
<1> QED
    BY <1>2, <1>3

LEMMA CardsInit == ASSUME Cards!Init PROVE CardsSound
<1>1. /\ attempt = [a \in Attempt |-> "none"] /\ call = [c \in Caller |-> Cards!NewCall]
      /\ chain = [c \in Caller |-> [k \in Cards!CardOf |-> << >>]]
      /\ sidecar = {} /\ host = [k \in Cards!CardOf |-> "none"] /\ lost = {}
    BY DEF Cards!Init
<1>2. /\ Cards!NewCall \in Call /\ Cards!NewCall.pc = "idle" /\ ~Cards!NewCall.disabled
      /\ \A a \in Attempt : Cards!NewCall.card[a] = "none"
    BY DEF Cards!NewCall, Call
<1>3. CardTypes
    BY <1>1, <1>2 DEF CardTypes
<1>4. ASSUME NEW k \in Cards!CardOf
      PROVE  Pc(k) = "idle" /\ CardIs(k) = "none" /\ Own(k) = << >> /\ ~Spoken(k) /\ host[k] = "none"
    BY <1>1, <1>2, CardIsPair DEF Pc, CardIs, Own, Spoken
<1>5. ChainsFit /\ DoneFirst /\ SidecarFits
    BY <1>1, <1>4 DEF ChainsFit, Updates, DoneFirst, SidecarFits
<1>6. CallsFit
    BY <1>1, <1>2 DEF CallsFit
<1>7. NotLost
    BY <1>4 DEF NotLost, Followed, Ending
<1> QED
    BY <1>3, <1>5, <1>6, <1>7 DEF CardsSound

CardsInvariant == by = "cards" => CardsSound

LEMMA CardsStutter ==
    ASSUME CardsSound, UNCHANGED vars
    PROVE  CardsSound' /\ Cards!CardsFollow
<1>1. UNCHANGED <<attempt, call, chain, sidecar, host, lost>>
    BY DEF vars, cardVars
<1>2. \A k \in Cards!CardOf : CardIs(k)' = CardIs(k) /\ Own(k)' = Own(k) /\ Pc(k)' = Pc(k) /\ Spoken(k)' = Spoken(k)
    BY <1>1 DEF CardIs, Own, Pc, Spoken
<1>3. CardTypes' /\ ChainsFit' /\ DoneFirst' /\ CallsFit' /\ SidecarFits'
    BY <1>1, <1>2 DEF CardsSound, CardTypes, ChainsFit, DoneFirst, CallsFit, SidecarFits
<1>4. NotLost'
    BY <1>1, <1>2 DEF CardsSound, NotLost, Followed, Cards!Open
<1>5. Cards!CardsFollow
    BY <1>1 DEF CardsSound, DoneFirst, Cards!CardsFollow
<1> QED
    BY <1>3, <1>4, <1>5 DEF CardsSound

LEMMA CardsStep ==
    ASSUME CardsInvariant, [Next]_vars
    PROVE  CardsInvariant' /\ (by = "cards" => Cards!CardsClosed' /\ Cards!CardsFollow)
<1>1. CardsSound' => Cards!CardsClosed'
    BY CardsAreClosed, PTL
<1>2. CASE by = "cards" /\ Cards!Next /\ UNCHANGED by
    BY <1>1, <1>2, CardsNext DEF CardsInvariant
<1>3. CASE by # "cards" /\ UNCHANGED by
    BY <1>3 DEF CardsInvariant
<1>4. CASE UNCHANGED vars
    <2>1. by' = by
        BY <1>4 DEF vars
    <2> QED
        BY <1>1, <1>4, <2>1, CardsStutter DEF CardsInvariant
<1> QED
    BY <1>2, <1>3, <1>4 DEF Next

\* docs/live-run-visibility.md:38, for any number of calls and attempts, whatever the host refuses
\* and whenever processes die: a card shown as running is in the sidecar or its end is on its way,
\* unless it was lost; it says completed only of an attempt saved as done; and it never runs again
\* (createRunCardProjector).
THEOREM CardsAreTrue == Spec => CardsTrue
<1>1. Init => CardsInvariant
    BY CardsInit DEF Init, CardsInvariant
<1>2. CardsInvariant /\ [Next]_vars => CardsInvariant'
    BY CardsStep
<1>3. CardsInvariant /\ [Next]_vars =>
          [by = "cards" => Cards!CardsClosed' /\ Cards!CardsFollow]_vars
    BY CardsStep
<1> QED
    BY <1>1, <1>2, <1>3, PTL DEF Spec, CardsTrue

-----------------------------------------------------------------------------
(* The index of the runs of a session: the inductive invariant.            *)

Rank == [run : Owned, rev : Nat]
Work == [owner : Parent, run : Owned, rev : Nat, add : BOOLEAN, status : BOOLEAN \cup {None}, tries : Nat]
Memo == [run : Owned, status : BOOLEAN, stamp : Nat]
Found == [stamp : Nat, runs : SUBSET Rank]
Scan == [owner : Parent, stamp : Nat, left : SUBSET Owned, runs : SUBSET Rank]
Local == [todo : Seq(Work), waiting : SUBSET Work, memo : [Parent -> Memo \cup {None}],
          found : [Parent -> Found \cup {None}], scan : Scan \cup {None}]

OwnerTypes ==
    /\ run \in [Owned -> [owner : Parent \cup {None}, active : BOOLEAN, rev : Nat]]
    /\ index \in [Parent -> [stamp : Nat, runs : SUBSET Rank]]
    /\ local \in [Plugin -> Local]
    /\ saves \in Nat

\* What the process p has still to tell, in its commit or later.
Now(p) == Owners!Due(local[p])
Pending(p) == Now(p) \cup local[p].waiting

\* A revision is of one run: the run, an entry or a refresh has it.
Marked(r, k) ==
    \/ run[r].owner # None /\ run[r].rev = k
    \/ \E o \in Parent : [run |-> r, rev |-> k] \in index[o].runs
    \/ \E p \in Plugin : \E w \in Pending(p) : w.run = r /\ w.rev = k
RevisionsFit ==
    /\ \A r \in Owned : run[r].rev <= saves
    /\ \A r \in Owned, k \in Nat : Marked(r, k) =>
        k <= run[r].rev /\ \A q \in Owned : Marked(q, k) => q = r
EntriesFit == \A o \in Parent :
    /\ \A e, f \in index[o].runs : e.run = f.run => e = f
    /\ index[o].stamp = 0 => index[o].runs = {}

\* What the saver of a run has to tell is as the run is, its new owner first.
WorkFits == \A p \in Plugin :
    /\ \A w \in Now(p) :
        /\ w.rev = run[w.run].rev
        /\ w.add <=> run[w.run].owner = w.owner
    /\ \A i \in DOMAIN local[p].todo : i >= 2 => ~local[p].todo[i].add
    /\ \A w \in Pending(p) :
        w.add /\ w.status # None /\ w.rev = run[w.run].rev => run[w.run].active = w.status

\* What a session was told of is listed, and no other entry, now or to come, is between the entry
\* and the run.
Between(e, k) == run[e.run].rev >= k /\ k >= e.rev
Ranked(o, e) ==
    /\ \A f \in index[o].runs : f.run # e.run => ~Between(e, f.rev)
    /\ \A p \in Plugin : \A w \in Pending(p) : w.add /\ w.owner = o /\ w.run # e.run => ~Between(e, w.rev)
IndexSound == \A o \in Parent :
    /\ \A e \in index[o].runs : Owners!Told(o, e.run) => run[e.run].owner = o
    /\ \A r \in Owned : Owners!Known(o, r) => \E e \in index[o].runs : e.run = r /\ Ranked(o, e)

\* A session that was told, or whose refresh has nothing to tell.
Fine(o, r) ==
    /\ <<o, r>> \notin untold
    /\ \A p \in Plugin : \A w \in Now(p) : Owners!Pair(w) = <<o, r>> => Owners!AlreadyCurrent(local[p], w)
\* Of an index as it is, a process remembers the newest entry, and how that run is.
Remembers(p, o) == local[p].memo[o] # None /\ local[p].memo[o].stamp = index[o].stamp
MemoFits(p, o) ==
    LET m == local[p].memo[o]
    IN  /\ \E e \in index[o].runs : e.run = m.run /\ \A f \in index[o].runs : ~Owners!Newer(f, e)
        /\ Fine(o, m.run) => run[m.run].owner = o /\ run[m.run].active = m.status
MemosFit == \A p \in Plugin, o \in Parent :
    /\ local[p].memo[o] # None =>
        local[p].memo[o].stamp # 0 /\ local[p].memo[o].stamp <= index[o].stamp
    /\ Remembers(p, o) => MemoFits(p, o)

\* What was found of the index as it is: as it was saved, at the entry's revision or later, and
\* every open run that was told or need not be told.
Finds(o, stamp, found, left) ==
    /\ stamp <= index[o].stamp
    /\ stamp = index[o].stamp =>
        /\ \A e, f \in found : e.run = f.run => e = f
        /\ \A e \in found :
            /\ e.run \notin left /\ e.rev <= run[e.run].rev
            /\ \A f \in index[o].runs : f.run = e.run => f.rev <= e.rev
        /\ \A r \in Owned : Fine(o, r) /\ run[r].owner = o /\ run[r].active =>
            r \in left \/ \E e \in found : e.run = r
FindingsFit == \A p \in Plugin :
    /\ \A o \in Parent : local[p].found[o] # None =>
        Finds(o, local[p].found[o].stamp, local[p].found[o].runs, {})
    /\ local[p].scan # None =>
        Finds(local[p].scan.owner, local[p].scan.stamp, local[p].scan.runs, local[p].scan.left)

OwnersSound ==
    /\ OwnerTypes /\ RevisionsFit /\ EntriesFit /\ WorkFits
    /\ IndexSound /\ MemosFit /\ FindingsFit

-----------------------------------------------------------------------------
(* The index of the runs of a session: it is as promised.                  *)

\* The parts of what a process keeps.
LEMMA LocalFits ==
    ASSUME OwnerTypes, NEW p \in Plugin
    PROVE  /\ local[p] \in Local /\ local[p].todo \in Seq(Work) /\ local[p].waiting \subseteq Work
           /\ local[p].memo \in [Parent -> Memo \cup {None}]
           /\ local[p].found \in [Parent -> Found \cup {None}]
           /\ local[p].scan \in Scan \cup {None}
           /\ Now(p) \subseteq Work /\ Pending(p) \subseteq Work
<1>1. local[p] \in Local
    BY DEF OwnerTypes
<1>2. /\ local[p].todo \in Seq(Work) /\ local[p].waiting \subseteq Work
      /\ local[p].memo \in [Parent -> Memo \cup {None}]
      /\ local[p].found \in [Parent -> Found \cup {None}]
      /\ local[p].scan \in Scan \cup {None}
    BY <1>1 DEF Local
<1>3. Now(p) \subseteq Work
    BY <1>2, ElementOfSeq DEF Now, Owners!Due
<1> QED
    BY <1>1, <1>2, <1>3 DEF Pending

\* Entries of an index and refreshes are marked, and no later than their run.
LEMMA EntryMarked ==
    ASSUME OwnerTypes, RevisionsFit, NEW o \in Parent, NEW e \in index[o].runs
    PROVE  e \in Rank /\ Marked(e.run, e.rev) /\ e.rev <= run[e.run].rev
<1>1. e \in Rank /\ e.run \in Owned /\ e.rev \in Nat
    BY DEF OwnerTypes, Rank
<1>2. Marked(e.run, e.rev)
    <2>1. e = [run |-> e.run, rev |-> e.rev]
        BY <1>1 DEF Rank
    <2> QED
        BY <2>1 DEF Marked
<1> QED
    BY <1>1, <1>2 DEF RevisionsFit

LEMMA WorkMarked ==
    ASSUME OwnerTypes, RevisionsFit, NEW p \in Plugin, NEW w \in Pending(p)
    PROVE  w \in Work /\ w.run \in Owned /\ w.rev \in Nat /\ Marked(w.run, w.rev) /\ w.rev <= run[w.run].rev
<1>1. w \in Work /\ w.run \in Owned /\ w.rev \in Nat
    BY LocalFits DEF Work
<1>2. Marked(w.run, w.rev)
    BY DEF Marked
<1> QED
    BY <1>1, <1>2 DEF RevisionsFit

\* Two entries, with what may be between each and its run, keep apart.
LEMMA Apart ==
    ASSUME NEW a \in Nat, NEW b \in Nat, NEW c \in Nat, NEW d \in Nat, NEW x \in Nat, NEW y \in Nat,
           a <= x, x <= b, c <= y, y <= d, ~(b >= c /\ c >= a), ~(d >= a /\ a >= c)
    PROVE  x > y <=> b > d
OBVIOUS

LEMMA OwnersPromise == ASSUME OwnersSound PROVE Owners!IndexTrue /\ Owners!CandidatesTrue
<1> USE DEF OwnersSound
<1>1. \A r \in Owned : run[r].rev \in Nat
    BY DEF OwnerTypes
<1>2. ASSUME NEW o \in Parent, NEW r \in Owned, Owners!Known(o, r)
      PROVE  Fine(o, r) /\ run[r].owner = o /\ \E e \in index[o].runs : e.run = r /\ Ranked(o, e)
    BY <1>2 DEF IndexSound, Owners!Known, Owners!Told, Fine, Now
\* The entry of a known run is ranked.
<1>3. ASSUME NEW o \in Parent, NEW e \in index[o].runs, Owners!Known(o, e.run)
      PROVE  Ranked(o, e)
    BY <1>2, <1>3, EntryMarked DEF EntriesFit, Rank
<1>4. Owners!IndexTrue
    <2> SUFFICES ASSUME NEW o \in Parent
                 PROVE  /\ \A e \in index[o].runs : Owners!Told(o, e.run) => run[e.run].owner = o
                        /\ \A r \in Owned : Owners!Known(o, r) => r \in Owners!Listed(o)
                        /\ \A e, f \in index[o].runs : Owners!Known(o, e.run) /\ Owners!Known(o, f.run) =>
                              (Owners!Newer(e, f) <=> Owners!Newer(run[e.run], run[f.run]))
        BY DEF Owners!IndexTrue
    <2>1. \A e \in index[o].runs : Owners!Told(o, e.run) => run[e.run].owner = o
        BY DEF IndexSound
    <2>2. \A r \in Owned : Owners!Known(o, r) => r \in Owners!Listed(o)
        BY <1>2 DEF Owners!Listed
    <2>3. ASSUME NEW e \in index[o].runs, NEW f \in index[o].runs,
                 Owners!Known(o, e.run), Owners!Known(o, f.run)
          PROVE  Owners!Newer(e, f) <=> Owners!Newer(run[e.run], run[f.run])
        <3>1. e \in Rank /\ f \in Rank /\ e.rev <= run[e.run].rev /\ f.rev <= run[f.run].rev
            BY EntryMarked
        <3>2. e.run \in Owned /\ f.run \in Owned /\ e.rev \in Nat /\ f.rev \in Nat
              /\ run[e.run].rev \in Nat /\ run[f.run].rev \in Nat
            BY <1>1, <3>1 DEF Rank
        <3>3. CASE e.run = f.run
            BY <3>2, <3>3 DEF EntriesFit, Owners!Newer
        <3>4. CASE e.run # f.run
            <4>1. Ranked(o, e) /\ Ranked(o, f)
                BY <1>3, <2>3
            <4>2. ~Between(e, f.rev) /\ ~Between(f, e.rev)
                BY <3>4, <4>1 DEF Ranked
            <4> QED
                BY <3>1, <3>2, <4>2, Apart DEF Between, Owners!Newer
        <3> QED
            BY <3>3, <3>4
    <2> QED
        BY <2>1, <2>2, <2>3
<1>5. Owners!CandidatesTrue
    <2> SUFFICES ASSUME NEW p \in Plugin, NEW o \in Parent, local[p].found[o] # None,
                        local[p].found[o].stamp = index[o].stamp
                 PROVE  LET found == local[p].found[o].runs
                            open == {r \in Owned : run[r].active /\ Owners!Known(o, r)}
                        IN  /\ \A r \in open : \E e \in found : e.run = r
                            /\ \A e, f \in found : {e.run, f.run} \subseteq open =>
                                  (Owners!Newer(e, f) <=> Owners!Newer(run[e.run], run[f.run]))
        BY DEF Owners!CandidatesTrue
    <2> DEFINE found == local[p].found[o].runs
               open == {r \in Owned : run[r].active /\ Owners!Known(o, r)}
    <2>1. found \subseteq Rank
        <3>1. local[p].found[o] \in Found
            BY LocalFits
        <3> QED
            BY <3>1 DEF Found
    <2>2. Finds(o, index[o].stamp, found, {})
        BY DEF FindingsFit
    <2>3. \A r \in open : \E e \in found : e.run = r
        <3> SUFFICES ASSUME NEW r \in open PROVE \E e \in found : e.run = r
            OBVIOUS
        <3>1. r \in Owned /\ Fine(o, r) /\ run[r].owner = o /\ run[r].active
            BY <1>2
        <3> QED
            BY <2>2, <3>1 DEF Finds
    <2>4. ASSUME NEW e \in found, NEW f \in found, {e.run, f.run} \subseteq open
          PROVE  Owners!Newer(e, f) <=> Owners!Newer(run[e.run], run[f.run])
        <3>1. /\ e.run \in Owned /\ f.run \in Owned /\ e.rev \in Nat /\ f.rev \in Nat
              /\ run[e.run].rev \in Nat /\ run[f.run].rev \in Nat
              /\ Owners!Known(o, e.run) /\ Owners!Known(o, f.run)
            BY <1>1, <2>1, <2>4 DEF Rank
        <3>2. CASE e.run = f.run
            BY <2>2, <3>1, <3>2 DEF Finds, Owners!Newer
        <3>3. CASE e.run # f.run
            <4>1. PICK x \in index[o].runs : x.run = e.run /\ Ranked(o, x)
                BY <1>2, <3>1
            <4>2. PICK y \in index[o].runs : y.run = f.run /\ Ranked(o, y)
                BY <1>2, <3>1
            <4>3. x.rev \in Nat /\ y.rev \in Nat
                BY EntryMarked DEF Rank
            <4>4. ~Between(x, y.rev) /\ ~Between(y, x.rev)
                BY <3>3, <4>1, <4>2 DEF Ranked
            <4>5. x.rev <= e.rev /\ e.rev <= run[e.run].rev /\ y.rev <= f.rev /\ f.rev <= run[f.run].rev
                BY <2>2, <4>1, <4>2 DEF Finds
            <4> QED
                BY <3>1, <4>1, <4>2, <4>3, <4>4, <4>5, Apart DEF Between, Owners!Newer
        <3> QED
            BY <3>2, <3>3
    <2> QED
        BY <2>3, <2>4
<1> QED
    BY <1>4, <1>5

-----------------------------------------------------------------------------
(* The index of the runs of a session: what changes neither runs nor       *)
(* indexes.                                                                *)

\* A refresh that is tried again is the same.
SameWork(v, u) ==
    v.owner = u.owner /\ v.run = u.run /\ v.rev = u.rev /\ v.add = u.add /\ v.status = u.status
SecondsFit(l) == \A i \in DOMAIN l.todo : i >= 2 => ~l.todo[i].add

LessWork ==
    \A q \in Plugin :
        /\ Now(q)' \subseteq Now(q) /\ SecondsFit(local'[q])
        /\ \A v \in Pending(q)' : \E u \in Pending(q) : SameWork(v, u)
Quiet ==
    /\ UNCHANGED <<run, index, saves>> /\ OwnerTypes' /\ LessWork
    /\ \A q \in Plugin, o \in Parent : local'[q].memo[o] \in {None, local[q].memo[o]}
    /\ \A o \in Parent, r \in Owned : Fine(o, r)' => Fine(o, r)

LEMMA MarksStay ==
    ASSUME OwnersSound, UNCHANGED <<run, saves>>,
           \A r \in Owned, k \in Nat : Marked(r, k)' => Marked(r, k)
    PROVE  RevisionsFit'
BY DEF OwnersSound, RevisionsFit

\* With less to tell, of runs as they are, it stays as they are.
LEMMA WorkStays ==
    ASSUME OwnersSound, UNCHANGED run, LessWork
    PROVE  WorkFits'
<1>1. ASSUME NEW q \in Plugin, NEW w \in Now(q)'
      PROVE  w.rev = run'[w.run].rev /\ (w.add <=> run'[w.run].owner = w.owner)
    BY <1>1 DEF OwnersSound, WorkFits, LessWork
<1>2. ASSUME NEW q \in Plugin, NEW w \in Pending(q)', w.add, w.status # None, w.rev = run'[w.run].rev
      PROVE  run'[w.run].active = w.status
    <2>1. PICK u \in Pending(q) : SameWork(w, u)
        BY <1>2 DEF LessWork
    <2> QED
        BY <1>2, <2>1 DEF OwnersSound, WorkFits, SameWork
<1> QED
    BY <1>1, <1>2 DEF WorkFits, LessWork, SecondsFit

LEMMA FindsStays ==
    ASSUME UNCHANGED run, NEW o \in Parent, index'[o] = index[o],
           \A r \in Owned : Fine(o, r)' /\ run[r].owner = o => Fine(o, r),
           NEW stamp, NEW found, NEW left, Finds(o, stamp, found, left)
    PROVE  Finds(o, stamp, found, left)'
BY DEF Finds

LEMMA QuietFindings ==
    ASSUME OwnersSound, Quiet,
           \A q \in Plugin : /\ local'[q].scan \in {None, local[q].scan}
                             /\ \A o \in Parent : local'[q].found[o] \in {None, local[q].found[o]}
    PROVE  FindingsFit'
<1>1. \A o \in Parent : \A stamp, found, left : Finds(o, stamp, found, left) => Finds(o, stamp, found, left)'
    BY FindsStays DEF Quiet
<1>2. ASSUME NEW q \in Plugin, NEW o \in Parent, local'[q].found[o] # None
      PROVE  Finds(o, local[q].found[o].stamp, local[q].found[o].runs, {})'
    <2>1. local'[q].found[o] = local[q].found[o]
        BY <1>2
    <2> QED
        BY <1>1, <1>2, <2>1 DEF OwnersSound, FindingsFit
<1>3. ASSUME NEW q \in Plugin, local'[q].scan # None
      PROVE  Finds(local[q].scan.owner, local[q].scan.stamp, local[q].scan.runs, local[q].scan.left)'
    <2>1. local'[q].scan = local[q].scan /\ local[q].scan.owner \in Parent
        BY <1>3, LocalFits DEF OwnersSound, Scan
    <2> QED
        BY <1>1, <1>3, <2>1 DEF OwnersSound, FindingsFit
<1> QED
    BY <1>2, <1>3 DEF FindingsFit

LEMMA RankedStays ==
    ASSUME UNCHANGED <<run, index>>, LessWork, NEW o \in Parent, NEW e, Ranked(o, e)
    PROVE  Ranked(o, e)'
<1>1. ASSUME NEW q \in Plugin, NEW w \in Pending(q)', w.add, w.owner = o, w.run # e.run
      PROVE  ~(run'[e.run].rev >= w.rev /\ w.rev >= e.rev)
    <2>1. PICK u \in Pending(q) : SameWork(w, u)
        BY <1>1 DEF LessWork
    <2> QED
        BY <1>1, <2>1 DEF Ranked, Between, SameWork
<1> QED
    BY <1>1 DEF Ranked, Between

LEMMA QuietIndex ==
    ASSUME OwnersSound, Quiet,
           \A o \in Parent, r \in Owned : Owners!Told(o, r)' => Owners!Told(o, r)
    PROVE  IndexSound'
<1>1. ASSUME NEW o \in Parent, NEW e \in index'[o].runs, Owners!Told(o, e.run)'
      PROVE  run'[e.run].owner = o
    <2>1. e \in index[o].runs /\ e.run \in Owned
        BY <1>1, EntryMarked DEF Quiet, OwnersSound, Rank
    <2> QED
        BY <1>1, <2>1 DEF Quiet, OwnersSound, IndexSound
<1>2. ASSUME NEW o \in Parent, NEW r \in Owned, Owners!Known(o, r)'
      PROVE  \E e \in index'[o].runs : e.run = r /\ Ranked(o, e)'
    <2>1. Owners!Known(o, r)
        BY <1>2 DEF Quiet, Owners!Known
    <2>2. PICK e \in index[o].runs : e.run = r /\ Ranked(o, e)
        BY <2>1 DEF OwnersSound, IndexSound
    <2>3. Ranked(o, e)'
        BY <2>2, RankedStays DEF Quiet
    <2> QED
        BY <2>2, <2>3 DEF Quiet
<1> QED
    BY <1>1, <1>2 DEF IndexSound

LEMMA QuietMarks ==
    ASSUME OwnersSound, Quiet
    PROVE  RevisionsFit'
<1>1. ASSUME NEW r \in Owned, NEW k \in Nat, Marked(r, k)'
      PROVE  Marked(r, k)
    <2>1. CASE \E q \in Plugin : \E w \in Pending(q)' : w.run = r /\ w.rev = k
        <3>0. PICK q \in Plugin : \E w \in Pending(q)' : w.run = r /\ w.rev = k
            BY <2>1
        <3>1. PICK w \in Pending(q)' : w.run = r /\ w.rev = k
            BY <3>0
        <3>2. PICK u \in Pending(q) : SameWork(w, u)
            BY <3>1 DEF Quiet, LessWork
        <3> QED
            BY <3>1, <3>2 DEF Marked, SameWork
    <2>2. CASE ~\E q \in Plugin : \E w \in Pending(q)' : w.run = r /\ w.rev = k
        BY <1>1, <2>2 DEF Quiet, Marked
    <2> QED
        BY <2>1, <2>2
<1> QED
    BY <1>1, MarksStay DEF Quiet

LEMMA QuietMemos ==
    ASSUME OwnersSound, Quiet
    PROVE  MemosFit'
<1>1. ASSUME NEW q \in Plugin, NEW o \in Parent, local'[q].memo[o] # None
      PROVE  local'[q].memo[o] = local[q].memo[o] /\ local[q].memo[o] # None /\ index'[o] = index[o]
    BY <1>1 DEF Quiet
<1>2. ASSUME NEW q \in Plugin, NEW o \in Parent, Remembers(q, o)'
      PROVE  Remembers(q, o)
    BY <1>1, <1>2 DEF Remembers
<1>3. ASSUME NEW q \in Plugin, NEW o \in Parent, Remembers(q, o)'
      PROVE  MemoFits(q, o)'
    <2>1. Remembers(q, o) /\ local[q].memo[o] # None /\ local'[q].memo[o] = local[q].memo[o] /\ index'[o] = index[o]
        BY <1>1, <1>2, <1>3 DEF Remembers
    <2>2. local[q].memo[o].run \in Owned
        BY <2>1, LocalFits DEF OwnersSound, Memo
    <2>3. run' = run /\ (Fine(o, local[q].memo[o].run)' => Fine(o, local[q].memo[o].run))
        BY <2>1, <2>2 DEF Quiet
    <2>4. \E e \in index'[o].runs : e.run = local[q].memo[o].run /\ \A f \in index'[o].runs : ~Owners!Newer(f, e)
        BY <2>1 DEF OwnersSound, MemosFit, MemoFits
    <2>5. Fine(o, local[q].memo[o].run) =>
            run[local[q].memo[o].run].owner = o /\ run[local[q].memo[o].run].active = local[q].memo[o].status
        BY <2>1 DEF OwnersSound, MemosFit, MemoFits
    <2> QED
        BY <2>1, <2>3, <2>4, <2>5 DEF MemoFits
<1>4. ASSUME NEW q \in Plugin, NEW o \in Parent, local'[q].memo[o] # None
      PROVE  local'[q].memo[o].stamp # 0 /\ local'[q].memo[o].stamp <= index'[o].stamp
    BY <1>1, <1>4 DEF OwnersSound, MemosFit
<1> QED
    BY <1>3, <1>4 DEF MemosFit

LEMMA QuietSound ==
    ASSUME OwnersSound, Quiet, IndexSound', FindingsFit'
    PROVE  OwnersSound'
<1>1. RevisionsFit' /\ MemosFit' /\ WorkFits'
    BY QuietMarks, QuietMemos, WorkStays DEF Quiet
<1>2. EntriesFit'
    BY DEF Quiet, OwnersSound, EntriesFit
<1> QED
    BY <1>1, <1>2 DEF OwnersSound, Quiet

-----------------------------------------------------------------------------
(* The index of the runs of a session: a try that leaves the index alone.  *)

\* What the process p keeps, l, when it tries w.
Tries(p, l, w) ==
    /\ l \in Local /\ w \in Pending(p)
    /\ l.memo = local[p].memo /\ l.scan = local[p].scan
    /\ \A o \in Parent : l.found[o] \in {None, local[p].found[o]}
    /\ l.waiting \subseteq local[p].waiting
    /\ Owners!Due(l) \subseteq Now(p) /\ Now(p) \subseteq Owners!Due(l) \cup {w}
    /\ \A v \in Owners!Due(l) : ~v.add
\* And afterwards, x: it may keep w for later.
Tried(l, w, x) ==
    /\ x \in Local /\ x.todo = l.todo /\ x.found = l.found /\ x.scan = l.scan
    /\ \A v \in x.waiting : v \in l.waiting \/ SameWork(v, w)

\* With x in its place, p has less to tell.
LEMMA TriedLess ==
    ASSUME OwnersSound, NEW p \in Plugin, NEW l, NEW w, Tries(p, l, w),
           NEW x, Tried(l, w, x), local' = [local EXCEPT ![p] = x]
    PROVE  /\ LessWork /\ local' \in [Plugin -> Local]
           /\ \A q \in Plugin : q # p => local'[q] = local[q] /\ Now(q)' = Now(q)
           /\ local'[p] = x /\ Now(p)' = Owners!Due(l)
           /\ \A q \in Plugin : \A v \in Now(q) : v \in Now(q)' \/ (q = p /\ v = w)
           /\ \A q \in Plugin, o \in Parent : local'[q].found[o] \in {None, local[q].found[o]}
           /\ \A q \in Plugin : local'[q].scan = local[q].scan
<1>1. local \in [Plugin -> Local]
    BY DEF OwnersSound, OwnerTypes
<1>2. local' \in [Plugin -> Local] /\ local'[p] = x /\ \A q \in Plugin : q # p => local'[q] = local[q]
    BY <1>1 DEF Tried
<1>3. Owners!Due(x) = Owners!Due(l)
    BY DEF Tried, Owners!Due
<1>4. Now(p)' = Owners!Due(l) /\ \A q \in Plugin : q # p => Now(q)' = Now(q)
    BY <1>2, <1>3 DEF Now
<1>5. \A q \in Plugin : Now(q)' \subseteq Now(q) /\ \A v \in Now(q) : v \in Now(q)' \/ (q = p /\ v = w)
    BY <1>4 DEF Tries
<1>6. SecondsFit(x)
    <2>1. \A i \in DOMAIN x.todo : x.todo[i] \in Owners!Due(l)
        BY <1>3 DEF Owners!Due
    <2> QED
        BY <2>1 DEF SecondsFit, Tries
<1>7. \A q \in Plugin : SecondsFit(local'[q])
    BY <1>2, <1>6 DEF OwnersSound, WorkFits, SecondsFit
<1>8. ASSUME NEW q \in Plugin, NEW v \in Pending(q)'
      PROVE  \E u \in Pending(q) : SameWork(v, u)
    <2>1. CASE v \in Now(q)'
        BY <1>5, <2>1 DEF Pending, SameWork
    <2>2. CASE q # p
        BY <1>2, <1>4, <1>8, <2>2 DEF Pending, SameWork
    <2>3. CASE q = p /\ v \in x.waiting
        BY <2>3 DEF Tried, Tries, Pending, SameWork
    <2> QED
        BY <1>2, <1>8, <2>1, <2>2, <2>3 DEF Pending
<1>9. LessWork
    BY <1>5, <1>7, <1>8 DEF LessWork
<1> QED
    BY <1>2, <1>4, <1>5, <1>9 DEF Tried, Tries

LEMMA DropSound ==
    ASSUME OwnersSound, NEW p \in Plugin, NEW l, NEW w, Tries(p, l, w), Owners!AlreadyCurrent(l, w),
           local' = [local EXCEPT ![p] = l], UNCHANGED <<run, index, saves>>,
           untold' = IF Owners!Later(p, l, w) THEN untold \cup {Owners!Pair(w)} ELSE untold
    PROVE  OwnersSound'
<1>1. Tried(l, w, l)
    BY DEF Tried, Tries
<1>2. /\ LessWork /\ local' \in [Plugin -> Local]
      /\ \A q \in Plugin : q # p => local'[q] = local[q] /\ Now(q)' = Now(q)
      /\ local'[p] = l /\ Now(p)' = Owners!Due(l)
      /\ \A q \in Plugin : \A v \in Now(q) : v \in Now(q)' \/ (q = p /\ v = w)
      /\ \A q \in Plugin, o \in Parent : local'[q].found[o] \in {None, local[q].found[o]}
      /\ \A q \in Plugin : local'[q].scan = local[q].scan
    BY <1>1, TriedLess
<1>3. OwnerTypes' /\ \A q \in Plugin : local'[q].memo = local[q].memo
    BY <1>2 DEF OwnersSound, OwnerTypes, Tries
<1>4. untold \subseteq untold'
    OBVIOUS
<1>5. ASSUME NEW o \in Parent, NEW r \in Owned, Fine(o, r)'
      PROVE  Fine(o, r)
    <2>1. ASSUME NEW q \in Plugin, NEW v \in Now(q), Owners!Pair(v) = <<o, r>>
          PROVE  Owners!AlreadyCurrent(local[q], v)
        <3>1. CASE v \in Now(q)'
            BY <1>3, <1>5, <2>1, <3>1 DEF Fine, Owners!AlreadyCurrent, Owners!Pair
        <3>2. CASE q = p /\ v = w
            BY <3>2 DEF Owners!AlreadyCurrent, Tries
        <3> QED
            BY <1>2, <2>1, <3>1, <3>2
    <2> QED
        BY <1>4, <1>5, <2>1 DEF Fine
<1>6. Quiet
    BY <1>2, <1>3, <1>5 DEF Quiet
<1>7. FindingsFit'
    BY <1>2, <1>6, QuietFindings
\* The pair of w may count as told now.
<1>8. ASSUME NEW o \in Parent, NEW r \in Owned, Owners!Told(o, r)', ~Owners!Told(o, r)
      PROVE  w \in Now(p) /\ <<o, r>> = Owners!Pair(w) /\ ~Owners!Later(p, l, w)
    <2>1. <<o, r>> \notin untold /\ <<o, r>> \notin untold'
        BY <1>4, <1>8 DEF Owners!Told
    <2>2. PICK q \in Plugin : \E v \in Now(q) : Owners!Pair(v) = <<o, r>>
        BY <1>8, <2>1 DEF Owners!Told, Now
    <2>3. PICK v \in Now(q) : Owners!Pair(v) = <<o, r>>
        BY <2>2
    <2>4. v \notin Now(q)'
        BY <1>8, <2>3 DEF Owners!Told, Now, Owners!Pair
    <2> QED
        BY <1>2, <2>1, <2>3, <2>4
<1>9. w.add /\ w.owner \in Parent /\ w.run \in Owned
    BY LocalFits DEF Owners!AlreadyCurrent, Tries, OwnersSound, Work
<1>10. ASSUME NEW o \in Parent, NEW e \in index'[o].runs, Owners!Told(o, e.run)'
       PROVE  run'[e.run].owner = o
    <2>1. e.run \in Owned /\ e \in index[o].runs
        BY <1>10, EntryMarked DEF OwnersSound, Rank
    <2>2. CASE Owners!Told(o, e.run)
        BY <2>1, <2>2 DEF OwnersSound, IndexSound
    <2>3. CASE ~Owners!Told(o, e.run)
        BY <1>8, <1>9, <1>10, <2>1, <2>3 DEF OwnersSound, WorkFits, Owners!Pair
    <2> QED
        BY <2>2, <2>3
<1>11. ASSUME NEW o \in Parent, NEW r \in Owned, Owners!Known(o, r)'
       PROVE  \E e \in index'[o].runs : e.run = r /\ Ranked(o, e)'
    <2>1. CASE Owners!Told(o, r)
        <3>1. PICK e \in index[o].runs : e.run = r /\ Ranked(o, e)
            BY <1>11, <2>1 DEF OwnersSound, IndexSound, Owners!Known
        <3>2. Ranked(o, e)'
            BY <1>2, <3>1, RankedStays
        <3> QED
            BY <3>1, <3>2
    <2>2. CASE ~Owners!Told(o, r)
        <3>1. w \in Now(p) /\ o = w.owner /\ r = w.run /\ ~Owners!Later(p, l, w)
            BY <1>8, <1>11, <2>2 DEF Owners!Known, Owners!Pair
        <3>2. Remembers(p, o) /\ local[p].memo[o].run = r
            <4>1. local[p].memo[o] = [run |-> r, status |-> w.status, stamp |-> index[o].stamp]
                BY <3>1 DEF Owners!AlreadyCurrent, Tries
            <4>2. local[p].memo[o] \in Memo
                <5>1. w.status \in BOOLEAN
                    BY LocalFits DEF Owners!AlreadyCurrent, Tries, OwnersSound, Work
                <5> QED
                    BY <4>1, <5>1 DEF Memo, OwnersSound, OwnerTypes
            <4> QED
                BY <4>1, <4>2, OwnerAssumption DEF Remembers, Memo
        <3>3. PICK e \in index[o].runs : e.run = r /\ \A f \in index[o].runs : ~Owners!Newer(f, e)
            BY <3>2 DEF OwnersSound, MemosFit, MemoFits
        <3>4. ASSUME NEW f \in index[o].runs, f.run # r
              PROVE  ~Between(e, f.rev)
            <4>1. /\ f.rev \in Nat /\ e.rev \in Nat /\ f.run \in Owned
                  /\ Marked(f.run, f.rev) /\ Marked(r, e.rev)
                BY <3>3, EntryMarked DEF OwnersSound, Rank
            <4>2. f.rev # e.rev
                BY <3>4, <4>1 DEF OwnersSound, RevisionsFit
            <4> QED
                BY <3>3, <4>1, <4>2 DEF Owners!Newer, Between
        <3>5. ASSUME NEW q \in Plugin, NEW v \in Pending(q)', v.add, v.owner = o
              PROVE  FALSE
            <4>1. CASE q = p
                BY <1>2, <3>1, <3>5, <4>1 DEF Pending, Tries, Owners!Later
            <4>2. CASE q # p
                BY <1>2, <3>1, <3>5, <4>2 DEF Pending, Owners!Later, Now
            <4> QED
                BY <4>1, <4>2
        <3> QED
            BY <3>3, <3>4, <3>5 DEF Ranked, Between
    <2> QED
        BY <2>1, <2>2
<1>12. IndexSound'
    BY <1>10, <1>11 DEF IndexSound
<1> QED
    BY <1>6, <1>7, <1>12, QuietSound

LEMMA FailSound ==
    ASSUME OwnersSound, NEW p \in Plugin, NEW l, NEW w, Tries(p, l, w),
           NEW x, Tried(l, w, x), \A o \in Parent : x.memo[o] \in {None, l.memo[o]},
           local' = [local EXCEPT ![p] = x], UNCHANGED <<run, index, saves>>, untold' = untold \cup {Owners!Pair(w)}
    PROVE  OwnersSound'
<1>2. /\ LessWork /\ local' \in [Plugin -> Local]
      /\ \A q \in Plugin : q # p => local'[q] = local[q] /\ Now(q)' = Now(q)
      /\ local'[p] = x
      /\ \A q \in Plugin : \A v \in Now(q) : v \in Now(q)' \/ (q = p /\ v = w)
      /\ \A q \in Plugin, o \in Parent : local'[q].found[o] \in {None, local[q].found[o]}
      /\ \A q \in Plugin : local'[q].scan = local[q].scan
    BY TriedLess
<1>3. OwnerTypes' /\ \A q \in Plugin, o \in Parent : local'[q].memo[o] \in {None, local[q].memo[o]}
    BY <1>2 DEF OwnersSound, OwnerTypes, Tries
\* Whatever is not marked as untold now has as much to tell.
<1>4. ASSUME NEW o \in Parent, NEW r \in Owned, <<o, r>> \notin untold'
      PROVE  /\ <<o, r>> \notin untold
             /\ \A q \in Plugin : \A v \in Now(q) : Owners!Pair(v) = <<o, r>> => v \in Now(q)'
    BY <1>2, <1>4
<1>5. ASSUME NEW q \in Plugin, NEW v \in Now(q), Owners!AlreadyCurrent(local[q], v)'
      PROVE  Owners!AlreadyCurrent(local[q], v)
    <2>1. v \in Work /\ v.owner \in Parent /\ index[v.owner].stamp \in Nat
        BY LocalFits DEF OwnersSound, OwnerTypes, Pending, Work
    <2>2. v.add /\ v.status # None
          /\ local'[q].memo[v.owner] = [run |-> v.run, status |-> v.status, stamp |-> index[v.owner].stamp]
        BY <1>5 DEF Owners!AlreadyCurrent
    <2>3. [run |-> v.run, status |-> v.status, stamp |-> index[v.owner].stamp] \in Memo
        BY <2>1, <2>2 DEF Work, Memo
    <2> QED
        BY <1>3, <2>1, <2>2, <2>3, OwnerAssumption DEF Owners!AlreadyCurrent, Memo
<1>6. \A o \in Parent, r \in Owned : Fine(o, r)' => Fine(o, r)
    BY <1>2, <1>4, <1>5 DEF Fine
<1>7. \A o \in Parent, r \in Owned : Owners!Told(o, r)' => Owners!Told(o, r)
    BY <1>4 DEF Owners!Told, Owners!Pair, Now
<1>8. Quiet
    BY <1>2, <1>3, <1>6 DEF Quiet
<1> QED
    BY <1>2, <1>7, <1>8, QuietFindings, QuietIndex, QuietSound

-----------------------------------------------------------------------------
(* The index of the runs of a session: a try that writes it.               *)

\* What the index of w's owner is now.
Wrote(w) ==
    index' = IF index[w.owner].stamp = 0 /\ ~w.add THEN index
             ELSE [index EXCEPT ![w.owner] = [stamp |-> index[w.owner].stamp + 1, runs |-> Owners!Merged(w)]]
Retold(w) == untold' = (untold \ {Owners!Pair(w)}) \cup (IF Owners!Tells(w) THEN {} ELSE {Owners!Pair(w)})

LEMMA WroteIs ==
    ASSUME OwnersSound, NEW w \in Work, Wrote(w)
    PROVE  /\ index' \in [Parent -> [stamp : Nat, runs : SUBSET Rank]]
           /\ \A o \in Parent : o # w.owner => index'[o] = index[o]
           /\ \A e \in index'[w.owner].runs :
                (e \in index[w.owner].runs /\ e.run # w.run) \/ (w.add /\ e = [run |-> w.run, rev |-> w.rev])
           /\ \A e \in index[w.owner].runs : e.run # w.run => e \in index'[w.owner].runs
           /\ w.add => [run |-> w.run, rev |-> w.rev] \in index'[w.owner].runs
           /\ \/ index' = index /\ index[w.owner].stamp = 0 /\ ~w.add
              \/ /\ index'[w.owner].stamp = index[w.owner].stamp + 1
                 /\ index'[w.owner].runs = Owners!Merged(w)
<1>1. w.owner \in Parent /\ w.run \in Owned /\ w.rev \in Nat
    BY DEF Work
<1>2. /\ index \in [Parent -> [stamp : Nat, runs : SUBSET Rank]]
      /\ index[w.owner].stamp \in Nat /\ index[w.owner].runs \subseteq Rank
      /\ index[w.owner].stamp = 0 => index[w.owner].runs = {}
    BY <1>1 DEF OwnersSound, OwnerTypes, EntriesFit
<1>3. /\ Owners!Merged(w) \subseteq Rank
      /\ \A e : e \in Owners!Merged(w) <=>
            (e \in index[w.owner].runs /\ e.run # w.run) \/ (w.add /\ e = [run |-> w.run, rev |-> w.rev])
    BY <1>1, <1>2 DEF Owners!Merged, Rank
<1>4. CASE index[w.owner].stamp = 0 /\ ~w.add
    BY <1>2, <1>4 DEF Wrote
<1>5. CASE ~(index[w.owner].stamp = 0 /\ ~w.add)
    <2> DEFINE k == index[w.owner].stamp + 1
    <2>1. k \in Nat
        BY <1>2
    <2>2. index' = [index EXCEPT ![w.owner] = [stamp |-> k, runs |-> Owners!Merged(w)]]
        BY <1>5 DEF Wrote
    <2> HIDE DEF k
    <2>3. index' \in [Parent -> [stamp : Nat, runs : SUBSET Rank]]
        BY <1>1, <1>2, <1>3, <2>1, <2>2
    <2>4. /\ index'[w.owner].stamp = k /\ index'[w.owner].runs = Owners!Merged(w)
          /\ \A o \in Parent : o # w.owner => index'[o] = index[o]
        BY <1>1, <1>2, <2>2
    <2> QED
        BY <1>3, <2>3, <2>4 DEF k
<1> QED
    BY <1>4, <1>5

LEMMA WriteSound ==
    ASSUME OwnersSound, NEW p \in Plugin, NEW l, NEW w, Tries(p, l, w),
           NEW x, Tried(l, w, x), local' = [local EXCEPT ![p] = x],
           x.memo = [l.memo EXCEPT ![w.owner] =
                        IF Owners!Remembered(w, Owners!Merged(w))
                        THEN [run |-> w.run, status |-> w.status, stamp |-> index[w.owner].stamp + 1]
                        ELSE None],
           UNCHANGED <<run, saves>>, Wrote(w), Retold(w)
    PROVE  OwnersSound'
<1>1. /\ w \in Work /\ w.owner \in Parent /\ w.run \in Owned /\ w.rev \in Nat
      /\ Marked(w.run, w.rev) /\ w.rev <= run[w.run].rev
    <2>1. w \in Pending(p)
        BY DEF Tries
    <2> QED
        BY <2>1, WorkMarked DEF OwnersSound, Work
<1>2. /\ LessWork /\ local' \in [Plugin -> Local]
      /\ \A q \in Plugin : q # p => local'[q] = local[q]
      /\ local'[p] = x
      /\ \A q \in Plugin : \A v \in Now(q) : v \in Now(q)' \/ (q = p /\ v = w)
      /\ \A q \in Plugin, o \in Parent : local'[q].found[o] \in {None, local[q].found[o]}
      /\ \A q \in Plugin : local'[q].scan = local[q].scan
    BY TriedLess
<1>3. /\ index' \in [Parent -> [stamp : Nat, runs : SUBSET Rank]]
      /\ \A o \in Parent : o # w.owner => index'[o] = index[o]
      /\ \A e \in index'[w.owner].runs :
            (e \in index[w.owner].runs /\ e.run # w.run) \/ (w.add /\ e = [run |-> w.run, rev |-> w.rev])
      /\ \A e \in index[w.owner].runs : e.run # w.run => e \in index'[w.owner].runs
      /\ w.add => [run |-> w.run, rev |-> w.rev] \in index'[w.owner].runs
      /\ \/ index' = index /\ index[w.owner].stamp = 0 /\ ~w.add
         \/ /\ index'[w.owner].stamp = index[w.owner].stamp + 1
            /\ index'[w.owner].runs = Owners!Merged(w)
    BY <1>1, WroteIs
<1>4. OwnerTypes'
    BY <1>2, <1>3 DEF OwnersSound, OwnerTypes
<1>5. RevisionsFit'
    <2>1. ASSUME NEW r \in Owned, NEW k \in Nat, Marked(r, k)'
          PROVE  Marked(r, k)
        <3>1. CASE run'[r].owner # None /\ run'[r].rev = k
            BY <3>1 DEF Marked
        <3>2. CASE \E o \in Parent : [run |-> r, rev |-> k] \in index'[o].runs
            BY <1>1, <1>3, <3>2 DEF Marked
        <3>3. CASE \E q \in Plugin : \E v \in Pending(q)' : v.run = r /\ v.rev = k
            <4>1. PICK q \in Plugin : \E v \in Pending(q)' : v.run = r /\ v.rev = k
                BY <3>3
            <4>2. PICK v \in Pending(q)' : v.run = r /\ v.rev = k
                BY <4>1
            <4>3. PICK u \in Pending(q) : SameWork(v, u)
                BY <1>2, <4>2 DEF LessWork
            <4> QED
                BY <4>2, <4>3 DEF Marked, SameWork
        <3> QED
            BY <2>1, <3>1, <3>2, <3>3 DEF Marked
    <2> QED
        BY <2>1, MarksStay
<1>6. EntriesFit'
    <2>1. ASSUME NEW o \in Parent
          PROVE  \A e, f \in index'[o].runs : e.run = f.run => e = f
        BY <1>3 DEF OwnersSound, EntriesFit
    <2>2. ASSUME NEW o \in Parent, index'[o].stamp = 0
          PROVE  index'[o].runs = {}
        <3>1. index[w.owner].stamp \in Nat
            BY <1>1 DEF OwnersSound, OwnerTypes
        <3> QED
            BY <1>3, <2>2, <3>1 DEF OwnersSound, EntriesFit
    <2> QED
        BY <2>1, <2>2 DEF EntriesFit
<1>7. WorkFits'
    BY <1>2, WorkStays
\* Only of w's pair more may be told, and only if w was right.
<1>8. ASSUME NEW o \in Parent, NEW r \in Owned, <<o, r>> # Owners!Pair(w), <<o, r>> \notin untold'
      PROVE  /\ <<o, r>> \notin untold
             /\ \A q \in Plugin : \A v \in Now(q) : Owners!Pair(v) = <<o, r>> => v \in Now(q)'
    BY <1>2, <1>8 DEF Retold
<1>9. <<w.owner, w.run>> \notin untold' => Owners!Tells(w)
    BY DEF Retold, Owners!Pair
<1>10. ASSUME NEW o \in Parent, NEW r \in Owned, <<o, r>> # Owners!Pair(w), Owners!Told(o, r)'
       PROVE  Owners!Told(o, r)
    BY <1>8, <1>10 DEF Owners!Told, Owners!Pair, Now
<1>11. IndexSound'
    <2>1. ASSUME NEW o \in Parent, NEW e \in index'[o].runs, Owners!Told(o, e.run)'
          PROVE  run'[e.run].owner = o
        <3>1. e.run \in Owned
            BY <1>3, <2>1 DEF Rank
        <3>2. CASE <<o, e.run>> = Owners!Pair(w)
            <4>1. w.owner = o /\ w.run = e.run /\ Owners!Tells(w)
                BY <1>9, <2>1, <3>2 DEF Owners!Told, Owners!Pair
            <4>2. w.add
                BY <1>3, <2>1, <4>1
            <4> QED
                BY <4>1, <4>2 DEF Owners!Tells
        <3>3. CASE <<o, e.run>> # Owners!Pair(w)
            <4>1. Owners!Told(o, e.run)
                BY <1>10, <2>1, <3>1, <3>3
            <4>2. e \in index[o].runs
                BY <1>3, <2>1, <3>3 DEF Owners!Pair
            <4> QED
                BY <4>1, <4>2 DEF OwnersSound, IndexSound
        <3> QED
            BY <3>2, <3>3
    <2>2. ASSUME NEW o \in Parent, NEW r \in Owned, Owners!Known(o, r)'
          PROVE  \E e \in index'[o].runs : e.run = r /\ Ranked(o, e)'
        <3>1. \A q \in Plugin : \A v \in Pending(q)' : \E u \in Pending(q) : SameWork(v, u)
            BY <1>2 DEF LessWork
        <3>2. CASE <<o, r>> = Owners!Pair(w)
            <4> DEFINE e == [run |-> w.run, rev |-> w.rev]
            <4>1. w.owner = o /\ w.run = r /\ Owners!Tells(w) /\ run[r].owner = o
                BY <1>9, <2>2, <3>2 DEF Owners!Known, Owners!Told, Owners!Pair
            <4>2. w.add /\ w.rev = run[r].rev
                BY <4>1 DEF Owners!Tells
            <4>3. e \in index'[o].runs /\ e.run = r /\ e.rev = run[r].rev
                BY <1>3, <4>1, <4>2
            <4>4. run[r].rev \in Nat /\ Marked(r, run[r].rev)
                BY <1>1, <4>1, <4>2
            <4>5. \A k \in Nat : run[r].rev >= k /\ k >= run[r].rev => k = run[r].rev
                BY <4>4
            <4>6. ASSUME NEW f \in index'[o].runs, f.run # r
                  PROVE  ~(run'[e.run].rev >= f.rev /\ f.rev >= e.rev)
                <5>1. f \in index[o].runs
                    BY <1>3, <4>1, <4>6
                <5>2. f.run \in Owned /\ f.rev \in Nat /\ Marked(f.run, f.rev)
                    BY <5>1, EntryMarked DEF OwnersSound, Rank
                <5>3. f.rev # run[r].rev
                    BY <4>4, <4>6, <5>2 DEF OwnersSound, RevisionsFit
                <5> QED
                    BY <4>3, <4>5, <5>2, <5>3
            <4>7. ASSUME NEW q \in Plugin, NEW v \in Pending(q)', v.run # r
                  PROVE  ~(run'[e.run].rev >= v.rev /\ v.rev >= e.rev)
                <5>1. PICK u \in Pending(q) : SameWork(v, u)
                    BY <3>1, <4>7
                <5>2. u.run \in Owned /\ u.rev \in Nat /\ Marked(u.run, u.rev) /\ u.rev = v.rev /\ u.run # r
                    BY <4>7, <5>1, WorkMarked DEF OwnersSound, SameWork
                <5>3. u.rev # run[r].rev
                    BY <4>4, <5>2 DEF OwnersSound, RevisionsFit
                <5> QED
                    BY <4>3, <4>5, <5>2, <5>3
            <4> HIDE DEF e
            <4> QED
                BY <4>3, <4>6, <4>7 DEF Ranked, Between
        <3>3. CASE <<o, r>> # Owners!Pair(w)
            <4>1. Owners!Known(o, r)
                BY <1>10, <2>2, <3>3 DEF Owners!Known
            <4>2. PICK e \in index[o].runs : e.run = r /\ Ranked(o, e)
                BY <4>1 DEF OwnersSound, IndexSound
            <4>3. e \in index'[o].runs
                BY <1>3, <3>3, <4>2 DEF Owners!Pair
            <4>4. ASSUME NEW f \in index'[o].runs, f.run # e.run
                  PROVE  ~(run'[e.run].rev >= f.rev /\ f.rev >= e.rev)
                <5>1. CASE f \in index[o].runs
                    BY <4>2, <4>4, <5>1 DEF Ranked, Between
                <5>2. CASE o = w.owner /\ w.add /\ f = [run |-> w.run, rev |-> w.rev]
                    BY <4>2, <4>4, <5>2 DEF Ranked, Between, Tries
                <5> QED
                    BY <1>3, <4>4, <5>1, <5>2
            <4>5. ASSUME NEW q \in Plugin, NEW v \in Pending(q)', v.add, v.owner = o, v.run # e.run
                  PROVE  ~(run'[e.run].rev >= v.rev /\ v.rev >= e.rev)
                <5>1. PICK u \in Pending(q) : SameWork(v, u)
                    BY <3>1, <4>5
                <5> QED
                    BY <4>2, <4>5, <5>1 DEF Ranked, Between, SameWork
            <4> QED
                BY <4>2, <4>3, <4>4, <4>5 DEF Ranked, Between
        <3> QED
            BY <3>2, <3>3
    <2> QED
        BY <2>1, <2>2 DEF IndexSound
\* Memos of other sessions stay; of this one there is the one just made, if any.
<1>12. ASSUME NEW q \in Plugin, NEW o \in Parent, o # w.owner
       PROVE  local'[q].memo[o] = local[q].memo[o]
    <2>1. l.memo \in [Parent -> Memo \cup {None}]
        BY DEF Tries, Local
    <2> QED
        BY <1>2, <1>12, <2>1 DEF Tries
<1>13. ASSUME NEW o \in Parent, NEW r \in Owned, o # w.owner, Fine(o, r)'
       PROVE  Fine(o, r)
    <2>1. <<o, r>> # Owners!Pair(w)
        BY <1>13 DEF Owners!Pair
    <2>2. /\ <<o, r>> \notin untold /\ <<o, r>> \notin untold'
          /\ \A q \in Plugin : \A v \in Now(q) : Owners!Pair(v) = <<o, r>> => v \in Now(q)'
        BY <1>8, <1>13, <2>1 DEF Fine
    <2>3. ASSUME NEW q \in Plugin, NEW v \in Now(q), Owners!Pair(v) = <<o, r>>
          PROVE  Owners!AlreadyCurrent(local[q], v)
        <3>1. v.owner = o /\ index'[o] = index[o] /\ local'[q].memo[o] = local[q].memo[o]
            BY <1>3, <1>12, <1>13, <2>3 DEF Owners!Pair
        <3>2. Owners!AlreadyCurrent(local[q], v)'
            BY <1>13, <2>2, <2>3 DEF Fine, Owners!Pair
        <3> QED
            BY <3>1, <3>2 DEF Owners!AlreadyCurrent
    <2> QED
        BY <2>2, <2>3 DEF Fine
<1>14. MemosFit'
    <2>1. ASSUME NEW q \in Plugin, NEW o \in Parent, o # w.owner
          PROVE  /\ local'[q].memo[o] # None =>
                        local'[q].memo[o].stamp # 0 /\ local'[q].memo[o].stamp <= index'[o].stamp
                 /\ Remembers(q, o)' => MemoFits(q, o)'
        <3>1. index'[o] = index[o] /\ \A y \in Plugin : local'[y].memo[o] = local[y].memo[o]
            BY <1>3, <1>12, <2>1
        <3>2. \A y \in Plugin : Remembers(y, o)' = Remembers(y, o)
            BY <3>1 DEF Remembers
        <3>3. ASSUME Remembers(q, o) PROVE MemoFits(q, o)'
            <4>1. MemoFits(q, o) /\ local[q].memo[o].run \in Owned
                BY <3>3, LocalFits DEF OwnersSound, MemosFit, Remembers, Memo
            <4>2. Fine(o, local[q].memo[o].run)' => Fine(o, local[q].memo[o].run)
                <5>1. local'[q].memo[o].run = local[q].memo[o].run
                    BY <3>1
                <5> QED
                    BY <1>13, <2>1, <4>1, <5>1
            <4> QED
                BY <3>1, <3>2, <4>1, <4>2 DEF MemoFits
        <3> QED
            BY <3>1, <3>2, <3>3 DEF OwnersSound, MemosFit
    <2>2. \A y \in Plugin : y # p => local'[y].memo[w.owner] = local[y].memo[w.owner]
        BY <1>2
    <2>3. l.memo \in [Parent -> Memo \cup {None}]
        BY DEF Tries, Local
    <2>4. local'[p].memo[w.owner] = IF Owners!Remembered(w, Owners!Merged(w))
                THEN [run |-> w.run, status |-> w.status, stamp |-> index[w.owner].stamp + 1] ELSE None
        BY <1>1, <1>2, <2>3
    <2>5. index[w.owner].stamp \in Nat
        BY <1>1 DEF OwnersSound, OwnerTypes
    <2>6. \A y \in Plugin : local[y].memo[w.owner] # None =>
              local[y].memo[w.owner].stamp # 0 /\ local[y].memo[w.owner].stamp <= index[w.owner].stamp
              /\ local[y].memo[w.owner].stamp \in Nat
        BY <1>1, LocalFits DEF OwnersSound, MemosFit, Memo
    <2>7. CASE index' = index /\ index[w.owner].stamp = 0 /\ ~w.add
        <3>1. local'[p].memo[w.owner] = None
            BY <2>4, <2>7 DEF Owners!Remembered
        <3>2. \A y \in Plugin : ~Remembers(y, w.owner)'
            BY <2>2, <2>6, <2>7, <3>1 DEF Remembers
        <3> QED
            BY <2>1, <2>2, <2>6, <2>7, <3>1, <3>2 DEF MemosFit
    <2>8. CASE index'[w.owner].stamp = index[w.owner].stamp + 1 /\ index'[w.owner].runs = Owners!Merged(w)
        <3>1. \A y \in Plugin : y # p => ~Remembers(y, w.owner)'
            BY <2>2, <2>5, <2>6, <2>8 DEF Remembers
        <3>2. ASSUME NEW q \in Plugin, local'[q].memo[w.owner] # None
              PROVE  local'[q].memo[w.owner].stamp # 0 /\ local'[q].memo[w.owner].stamp <= index'[w.owner].stamp
            BY <2>2, <2>4, <2>5, <2>6, <2>8, <3>2
        <3>3. ASSUME local'[p].memo[w.owner] # None PROVE MemoFits(p, w.owner)'
            <4>1. /\ Owners!Remembered(w, Owners!Merged(w))
                  /\ local'[p].memo[w.owner].run = w.run /\ local'[p].memo[w.owner].status = w.status
                BY <2>4, <3>3
            <4>2. \E e \in index'[w.owner].runs :
                    e.run = w.run /\ \A f \in index'[w.owner].runs : ~Owners!Newer(f, e)
                BY <2>8, <4>1 DEF Owners!Remembered
            <4>3. w.add /\ w.status # None
                BY <4>1 DEF Owners!Remembered
            <4>4. ASSUME Fine(w.owner, local[p].memo[w.owner].run)'
                  PROVE  run'[w.run].owner = w.owner /\ run'[w.run].active = w.status
                <5>1. <<w.owner, local'[p].memo[w.owner].run>> \notin untold'
                    BY <4>4 DEF Fine
                <5>2. Owners!Tells(w)
                    BY <1>9, <4>1, <5>1
                <5>3. w.rev = run[w.run].rev /\ run[w.run].owner = w.owner
                    BY <4>3, <5>2 DEF Owners!Tells
                <5> QED
                    BY <4>3, <5>3 DEF OwnersSound, WorkFits, Tries
            <4> QED
                BY <3>1, <4>1, <4>2, <4>4 DEF MemoFits
        <3> QED
            BY <2>1, <3>1, <3>2, <3>3 DEF MemosFit, Remembers
    <2> QED
        BY <1>3, <2>7, <2>8
\* What was found of this session's index before is found of an older one now.
<1>15. ASSUME NEW o \in Parent, NEW s, NEW found, NEW left, s \in Nat, Finds(o, s, found, left)
       PROVE  Finds(o, s, found, left)'
    <2>1. CASE o # w.owner
        BY <1>3, <1>13, <1>15, <2>1, FindsStays
    <2>2. CASE o = w.owner /\ index' = index
        <3>1. ASSUME NEW r \in Owned, Fine(o, r)', run[r].owner = o
              PROVE  Fine(o, r)
            <4>1. CASE r = w.run
                <5>1. Owners!Tells(w)
                    BY <1>9, <2>2, <3>1, <4>1 DEF Fine
                <5>2. ~w.add
                    <6>1. index[w.owner].stamp \in Nat
                        BY <1>1 DEF OwnersSound, OwnerTypes
                    <6> QED
                        BY <1>3, <2>2, <6>1
                <5> QED
                    BY <2>2, <3>1, <4>1, <5>1, <5>2 DEF Owners!Tells
            <4>2. CASE r # w.run
                <5>1. <<o, r>> # Owners!Pair(w)
                    BY <4>2 DEF Owners!Pair
                <5>2. /\ <<o, r>> \notin untold
                      /\ \A q \in Plugin : \A v \in Now(q) : Owners!Pair(v) = <<o, r>> => v \in Now(q)'
                    BY <1>8, <3>1, <5>1 DEF Fine
                <5>3. ASSUME NEW q \in Plugin, NEW v \in Now(q), Owners!Pair(v) = <<o, r>>
                      PROVE  Owners!AlreadyCurrent(local[q], v)
                    <6>1. v.owner = o /\ v.run = r /\ v \in Work
                        BY <5>3, LocalFits DEF Owners!Pair, OwnersSound
                    <6>2. Owners!AlreadyCurrent(local[q], v)'
                        BY <3>1, <5>2, <5>3 DEF Fine, Owners!Pair
                    <6>3. local'[q].memo[o] # None /\ local'[q].memo[o].stamp = index'[o].stamp
                        <7>1. local'[q].memo[o] = [run |-> r, status |-> v.status, stamp |-> index'[o].stamp]
                            BY <6>1, <6>2 DEF Owners!AlreadyCurrent
                        <7>2. v.status \in BOOLEAN /\ index'[o].stamp \in Nat
                            BY <1>3, <6>1, <6>2 DEF Owners!AlreadyCurrent, Work
                        <7>3. local'[q].memo[o] \in Memo
                            BY <7>1, <7>2 DEF Memo
                        <7> QED
                            BY <7>1, <7>3, OwnerAssumption DEF Memo
                    <6>4. Remembers(q, o)'
                        BY <6>3 DEF Remembers
                    <6>5. \E e \in index'[o].runs : TRUE
                        BY <1>14, <6>4 DEF MemosFit, MemoFits
                    <6>6. index[o].runs = {}
                        <7>1. index[w.owner].stamp \in Nat
                            BY <1>1 DEF OwnersSound, OwnerTypes
                        <7> QED
                            BY <1>3, <2>2, <7>1 DEF OwnersSound, EntriesFit
                    <6> QED
                        BY <2>2, <6>5, <6>6
                <5> QED
                    BY <5>2, <5>3 DEF Fine
            <4> QED
                BY <4>1, <4>2
        <3> QED
            BY <1>15, <2>2, <3>1, FindsStays
    <2>3. CASE o = w.owner /\ index'[o].stamp = index[o].stamp + 1
        <3>1. index[o].stamp \in Nat
            BY DEF OwnersSound, OwnerTypes
        <3> QED
            BY <1>15, <2>3, <3>1 DEF Finds
    <2> QED
        BY <1>3, <2>1, <2>2, <2>3
<1>16. FindingsFit'
    <2>1. ASSUME NEW q \in Plugin, NEW o \in Parent, local'[q].found[o] # None
          PROVE  Finds(o, local[q].found[o].stamp, local[q].found[o].runs, {})'
        <3>1. local'[q].found[o] = local[q].found[o] /\ local[q].found[o].stamp \in Nat
            BY <1>2, <2>1, LocalFits DEF OwnersSound, Found
        <3> QED
            BY <1>15, <2>1, <3>1 DEF OwnersSound, FindingsFit
    <2>2. ASSUME NEW q \in Plugin, local'[q].scan # None
          PROVE  Finds(local[q].scan.owner, local[q].scan.stamp, local[q].scan.runs, local[q].scan.left)'
        <3>1. local'[q].scan = local[q].scan /\ local[q].scan.owner \in Parent /\ local[q].scan.stamp \in Nat
            BY <1>2, <2>2, LocalFits DEF OwnersSound, Scan
        <3> QED
            BY <1>15, <2>2, <3>1 DEF OwnersSound, FindingsFit
    <2> QED
        BY <2>1, <2>2 DEF FindingsFit
<1> QED
    BY <1>4, <1>5, <1>6, <1>7, <1>11, <1>14, <1>16 DEF OwnersSound

-----------------------------------------------------------------------------
(* The index of the runs of a session: refreshes, turns and deaths.        *)

LEMMA TrySound ==
    ASSUME OwnersSound, NEW p \in Plugin, NEW l, NEW w, Tries(p, l, w), Owners!Try(p, l, w)
    PROVE  OwnersSound'
<1> DEFINE rest == [l EXCEPT !.waiting = {v \in l.waiting : ~Owners!SameKey(v, w)}]
           memo == IF Owners!Remembered(w, Owners!Merged(w))
                   THEN [run |-> w.run, status |-> w.status, stamp |-> index[w.owner].stamp + 1]
                   ELSE None
           again == [w EXCEPT !.tries = w.tries + 1]
           bare == [rest EXCEPT !.memo[w.owner] = None]
           kept(left) == [left EXCEPT !.waiting = left.waiting \cup {again}]
           wrote == [rest EXCEPT !.memo[w.owner] = memo]
<1>1. UNCHANGED <<run, saves>>
    BY DEF Owners!Try
<1>2. l \in Local /\ w \in Work /\ w.owner \in Parent /\ w.run \in Owned
    <2>1. w \in Pending(p)
        BY DEF Tries
    <2> QED
        BY <2>1, LocalFits DEF OwnersSound, Tries, Work
<1>3. /\ rest \in Local /\ rest.todo = l.todo /\ rest.found = l.found /\ rest.scan = l.scan
      /\ rest.memo = l.memo /\ rest.waiting \subseteq l.waiting
    BY <1>2 DEF Local
<1>4. again \in Work /\ SameWork(again, w)
    BY <1>2 DEF Work, SameWork
<1>13. /\ bare \in Local /\ bare.todo = l.todo /\ bare.found = l.found /\ bare.scan = l.scan
       /\ \A o \in Parent : bare.memo[o] \in {None, l.memo[o]}
       /\ bare.waiting = rest.waiting
    <2> HIDE DEF rest
    <2> QED
        BY <1>2, <1>3 DEF Local
<1>5. ASSUME NEW left \in {rest, bare}
      PROVE  /\ kept(left) \in Local /\ kept(left).todo = l.todo /\ kept(left).found = l.found
             /\ kept(left).scan = l.scan
             /\ kept(left).memo = left.memo /\ kept(left).waiting = rest.waiting \cup {again}
    <2>1. left \in Local /\ left.todo = l.todo /\ left.found = l.found /\ left.scan = l.scan
          /\ left.waiting = rest.waiting
        BY <1>3, <1>5, <1>13
    <2> HIDE DEF rest, again, bare
    <2> QED
        BY <1>4, <2>1 DEF Local
<1>6. memo \in Memo \cup {None}
    <2>1. CASE Owners!Remembered(w, Owners!Merged(w))
        <3>1. w.status \in BOOLEAN
            BY <1>2, <2>1 DEF Work, Owners!Remembered
        <3>2. index[w.owner].stamp + 1 \in Nat
            BY <1>2 DEF OwnersSound, OwnerTypes
        <3> QED
            BY <1>2, <2>1, <3>1, <3>2 DEF Memo
    <2>2. CASE ~Owners!Remembered(w, Owners!Merged(w))
        BY <2>2
    <2> QED
        BY <2>1, <2>2
<1>7. /\ wrote \in Local /\ wrote.todo = l.todo /\ wrote.found = l.found /\ wrote.scan = l.scan
      /\ wrote.memo = [l.memo EXCEPT ![w.owner] = memo] /\ wrote.waiting = rest.waiting
    <2> HIDE DEF rest, memo
    <2> QED
        BY <1>2, <1>3, <1>6 DEF Local
<1>8. /\ Tried(l, w, rest) /\ Tried(l, w, bare) /\ Tried(l, w, wrote)
      /\ \A left \in {rest, bare} : Tried(l, w, kept(left))
    <2> HIDE DEF rest, bare, kept, wrote, again
    <2> QED
        BY <1>3, <1>4, <1>5, <1>7, <1>13 DEF Tried
<1>9. \/ /\ Owners!AlreadyCurrent(l, w) /\ local' = [local EXCEPT ![p] = l]
         /\ untold' = IF Owners!Later(p, l, w) THEN untold \cup {Owners!Pair(w)} ELSE untold
         /\ UNCHANGED index
      \/ Wrote(w) /\ Retold(w) /\ local' = [local EXCEPT ![p] = wrote]
      \/ /\ untold' = untold \cup {Owners!Pair(w)} /\ UNCHANGED index
         /\ \E left \in {rest, bare} : local' \in {[local EXCEPT ![p] = left], [local EXCEPT ![p] = kept(left)]}
    BY DEF Owners!Try, Wrote, Retold
<1> HIDE DEF rest, memo, again, bare, kept, wrote
<1>10. CASE /\ Owners!AlreadyCurrent(l, w) /\ local' = [local EXCEPT ![p] = l]
            /\ untold' = IF Owners!Later(p, l, w) THEN untold \cup {Owners!Pair(w)} ELSE untold
            /\ UNCHANGED index
    BY <1>1, <1>10, DropSound
<1>11. CASE Wrote(w) /\ Retold(w) /\ local' = [local EXCEPT ![p] = wrote]
    BY <1>1, <1>7, <1>8, <1>11, WriteSound DEF memo
<1>12. CASE /\ untold' = untold \cup {Owners!Pair(w)} /\ UNCHANGED index
            /\ \E left \in {rest, bare} : local' \in {[local EXCEPT ![p] = left], [local EXCEPT ![p] = kept(left)]}
    BY <1>1, <1>3, <1>5, <1>8, <1>12, <1>13, FailSound
<1> QED
    BY <1>9, <1>10, <1>11, <1>12

LEMMA RefreshesSound == ASSUME OwnersSound, NEW p \in Plugin, Owners!Refreshes(p) PROVE OwnersSound'
<1> DEFINE todo == local[p].todo
           w == Head(todo)
           l == [local[p] EXCEPT !.todo = Tail(todo), !.found[w.owner] = None]
<1>1. /\ local[p] \in Local /\ todo \in Seq(Work) /\ todo # << >>
      /\ local[p].waiting \subseteq Work
      /\ local[p].memo \in [Parent -> Memo \cup {None}]
      /\ local[p].found \in [Parent -> Found \cup {None}]
      /\ local[p].scan \in Scan \cup {None}
    BY LocalFits DEF OwnersSound, Owners!Refreshes
<1>2. /\ w \in Work /\ w.owner \in Parent /\ Tail(todo) \in Seq(Work) /\ w = todo[1] /\ 1 \in DOMAIN todo
      /\ \A i \in DOMAIN Tail(todo) : i + 1 \in DOMAIN todo /\ i + 1 >= 2 /\ Tail(todo)[i] = todo[i + 1]
      /\ \A i \in DOMAIN todo : i = 1 \/ (i - 1 \in DOMAIN Tail(todo) /\ Tail(todo)[i - 1] = todo[i])
    <2> HIDE DEF todo
    <2>1. Len(todo) \in Nat /\ Len(todo) >= 1 /\ DOMAIN todo = 1..Len(todo)
        BY <1>1, EmptySeq, LenProperties
    <2>2. w \in Work /\ w = todo[1]
        BY <1>1, <2>1, ElementOfSeq
    <2>3. /\ Tail(todo) \in Seq(Work) /\ Len(Tail(todo)) = Len(todo) - 1
          /\ \A i \in 1..Len(Tail(todo)) : Tail(todo)[i] = todo[i + 1]
        BY <1>1, HeadTailProperties
    <2>4. DOMAIN Tail(todo) = 1..(Len(todo) - 1)
        BY <2>3, LenProperties
    <2>5. \A i \in DOMAIN Tail(todo) : i + 1 \in DOMAIN todo /\ i + 1 >= 2 /\ Tail(todo)[i] = todo[i + 1]
        BY <2>1, <2>3, <2>4
    <2>6. ASSUME NEW i \in DOMAIN todo, i # 1
          PROVE  i - 1 \in DOMAIN Tail(todo) /\ Tail(todo)[i - 1] = todo[i]
        <3>1. i \in 1..Len(todo) /\ i - 1 \in 1..(Len(todo) - 1) /\ (i - 1) + 1 = i
            BY <2>1, <2>6
        <3> QED
            BY <2>4, <2>5, <3>1
    <2>7. w.owner \in Parent /\ 1 \in DOMAIN todo
        BY <2>1, <2>2 DEF Work
    <2> QED
        BY <2>2, <2>3, <2>5, <2>6, <2>7
<1>3. /\ l \in Local /\ l.todo = Tail(todo) /\ l.waiting = local[p].waiting /\ l.memo = local[p].memo
      /\ l.scan = local[p].scan /\ l.found = [local[p].found EXCEPT ![w.owner] = None]
    <2> HIDE DEF todo, w
    <2> QED
        BY <1>1, <1>2 DEF Local, todo
<1>4. Owners!Try(p, l, w)
    BY DEF Owners!Refreshes
<1> HIDE DEF l, w, todo
<1>5. Owners!Due(l) \subseteq Now(p)
    BY <1>2, <1>3 DEF Owners!Due, Now, todo
<1>6. Now(p) \subseteq Owners!Due(l) \cup {w}
    <2> SUFFICES ASSUME NEW v \in Now(p) PROVE v \in Owners!Due(l) \/ v = w
        OBVIOUS
    <2>1. PICK i \in DOMAIN todo : v = todo[i]
        BY DEF Owners!Due, Now, todo
    <2>2. CASE i = 1
        BY <1>2, <2>1, <2>2
    <2>3. CASE i - 1 \in DOMAIN Tail(todo) /\ Tail(todo)[i - 1] = todo[i]
        BY <1>3, <2>1, <2>3 DEF Owners!Due
    <2> QED
        BY <1>2, <2>2, <2>3
<1>7. w \in Pending(p)
    BY <1>2 DEF Owners!Due, Now, Pending, todo
<1>8. \A v \in Owners!Due(l) : ~v.add
    <2>1. \A i \in DOMAIN todo : i >= 2 => ~todo[i].add
        BY DEF OwnersSound, WorkFits, todo
    <2> QED
        BY <1>2, <1>3, <2>1 DEF Owners!Due
<1>9. \A o \in Parent : l.found[o] \in {None, local[p].found[o]}
    BY <1>1, <1>3
<1>10. Tries(p, l, w)
    BY <1>3, <1>5, <1>6, <1>7, <1>8, <1>9 DEF Tries
<1> QED
    BY <1>4, <1>10, TrySound

LEMMA TriesAgainSound == ASSUME OwnersSound, NEW p \in Plugin, Owners!TriesAgain(p) PROVE OwnersSound'
<1>1. /\ local[p] \in Local /\ local[p].waiting \subseteq Work
    BY LocalFits DEF OwnersSound
<1>2. PICK w \in local[p].waiting : Owners!Try(p, [local[p] EXCEPT !.waiting = local[p].waiting \ {w}], w)
    BY DEF Owners!TriesAgain
<1> DEFINE l == [local[p] EXCEPT !.waiting = local[p].waiting \ {w}]
<1>3. /\ l \in Local /\ l.todo = local[p].todo /\ l.waiting \subseteq local[p].waiting
      /\ l.memo = local[p].memo /\ l.scan = local[p].scan /\ l.found = local[p].found
    BY <1>1 DEF Local
<1>4. Owners!Try(p, l, w)
    BY <1>2
<1> HIDE DEF l
<1>5. Owners!Due(l) = {} /\ Now(p) = {}
    BY <1>3 DEF Owners!TriesAgain, Owners!Idle, Owners!Due, Now
<1>6. Tries(p, l, w)
    BY <1>3, <1>5 DEF Tries, Pending
<1> QED
    BY <1>4, <1>6, TrySound

\* A process that dies or turns to something new has nothing more to tell than before.
LEMMA ForgetsSound ==
    ASSUME OwnersSound, NEW p \in Plugin, NEW l \in Local, local' = [local EXCEPT ![p] = l],
           UNCHANGED <<run, index, saves>>,
           l.todo = << >> \/ l.todo = local[p].todo, l.waiting \subseteq local[p].waiting,
           \A o \in Parent : l.memo[o] \in {None, local[p].memo[o]},
           l.memo = local[p].memo \/ l.todo = << >>,
           untold \subseteq untold',
           l.todo = local[p].todo \/ \A w \in Now(p) : Owners!Pair(w) \in untold'
    PROVE  /\ Quiet /\ IndexSound' /\ local'[p] = l /\ \A q \in Plugin : q # p => local'[q] = local[q]
<1>1. local' \in [Plugin -> Local] /\ local'[p] = l /\ \A q \in Plugin : q # p => local'[q] = local[q]
    BY DEF OwnersSound, OwnerTypes
<1>2. OwnerTypes'
    BY <1>1 DEF OwnersSound, OwnerTypes
<1>3. Owners!Due(l) = {} \/ Owners!Due(l) = Now(p)
    BY DEF Owners!Due, Now
<1>4. Now(p)' = Owners!Due(l) /\ \A q \in Plugin : Now(q)' \subseteq Now(q) /\ (q # p => Now(q)' = Now(q))
    BY <1>1, <1>3 DEF Now
<1>5. LessWork
    <2>1. \A q \in Plugin : SecondsFit(local'[q])
        BY <1>1 DEF OwnersSound, WorkFits, SecondsFit
    <2>2. \A q \in Plugin : Pending(q)' \subseteq Pending(q)
        BY <1>1, <1>4 DEF Pending
    <2> QED
        BY <1>4, <2>1, <2>2 DEF LessWork, SameWork
\* Of a pair that was told all it has still to tell is to do.
<1>6. ASSUME NEW o \in Parent, NEW r \in Owned, <<o, r>> \notin untold'
      PROVE  /\ <<o, r>> \notin untold
             /\ \A q \in Plugin : \A v \in Now(q) : Owners!Pair(v) = <<o, r>> => v \in Now(q)'
    <2>1. l.todo = local[p].todo => Now(p)' = Now(p)
        BY <1>1 DEF Now, Owners!Due
    <2> QED
        BY <1>4, <1>6, <2>1
<1>7. ASSUME NEW o \in Parent, NEW r \in Owned, Fine(o, r)'
      PROVE  Fine(o, r)
    <2>1. ASSUME NEW q \in Plugin, NEW v \in Now(q), Owners!Pair(v) = <<o, r>>
          PROVE  Owners!AlreadyCurrent(local[q], v)
        <3>1. v \in Now(q)' /\ Owners!AlreadyCurrent(local[q], v)'
            BY <1>6, <1>7, <2>1 DEF Fine, Owners!Pair
        <3>2. local'[q].memo = local[q].memo
            <4>1. CASE l.todo = << >> /\ q = p
                BY <1>1, <3>1, <4>1 DEF Now, Owners!Due
            <4> QED
                BY <1>1, <4>1
        <3> QED
            BY <3>1, <3>2 DEF Owners!AlreadyCurrent
    <2> QED
        BY <1>6, <1>7, <2>1 DEF Fine
<1>8. \A o \in Parent, r \in Owned : Owners!Told(o, r)' => Owners!Told(o, r)
    BY <1>6 DEF Owners!Told, Owners!Pair, Now
<1>9. Quiet
    BY <1>1, <1>2, <1>5, <1>7 DEF Quiet
<1> QED
    BY <1>1, <1>8, <1>9, QuietIndex

LEMMA DiesSound == ASSUME OwnersSound, NEW p \in Plugin, Owners!Dies(p) PROVE OwnersSound'
<1> DEFINE l == Owners!NoLocal
<1>1. /\ local' = [local EXCEPT ![p] = l] /\ UNCHANGED <<run, index, saves>>
      /\ untold' = untold \cup {Owners!Pair(w) : w \in Pending(p)}
    BY DEF Owners!Dies, Pending, Now
<1>2. /\ l.todo = << >> /\ l.waiting = {} /\ l.scan = None
      /\ \A o \in Parent : l.memo[o] = None /\ l.found[o] = None
    BY DEF Owners!NoLocal
<1>3. l \in Local
    <2>1. << >> \in Seq(Work)
        BY EmptySeq
    <2> QED
        BY <2>1 DEF Owners!NoLocal, Local
<1> HIDE DEF l
<1>4. Quiet /\ IndexSound' /\ local'[p] = l /\ \A q \in Plugin : q # p => local'[q] = local[q]
    <2>1. untold \subseteq untold' /\ \A w \in Now(p) : Owners!Pair(w) \in untold'
        BY <1>1 DEF Pending
    <2>2. l.waiting \subseteq local[p].waiting /\ \A o \in Parent : l.memo[o] \in {None, local[p].memo[o]}
        BY <1>2
    <2>3. UNCHANGED run /\ UNCHANGED index /\ UNCHANGED saves
        BY <1>1
    <2> QED
        BY <1>1, <1>2, <1>3, <2>1, <2>2, <2>3, ForgetsSound
<1>5. FindingsFit'
    BY <1>2, <1>4, QuietFindings
<1> QED
    BY <1>4, <1>5, QuietSound

LEMMA TurnSound == ASSUME OwnersSound, NEW p \in Plugin, Owners!Turn(p) PROVE OwnersSound'
<1>1. /\ local[p] \in Local /\ local[p].found \in [Parent -> Found \cup {None}]
    BY LocalFits DEF OwnersSound
<1>2. PICK o \in Parent :
        local' = [local EXCEPT ![p] = [@ EXCEPT !.found[o] = None,
              !.scan = [owner |-> o, stamp |-> index[o].stamp, left |-> Owned, runs |-> {}]]]
    BY DEF Owners!Turn
<1> DEFINE scan == [owner |-> o, stamp |-> index[o].stamp, left |-> Owned, runs |-> {}]
           l == [local[p] EXCEPT !.found[o] = None, !.scan = scan]
<1>3. scan \in Scan
    BY DEF Scan, OwnersSound, OwnerTypes
<1>4. local' = [local EXCEPT ![p] = l]
    BY <1>2 DEF OwnersSound, OwnerTypes
<1>5. /\ l \in Local /\ l.todo = local[p].todo /\ l.waiting = local[p].waiting /\ l.memo = local[p].memo
      /\ l.scan = scan /\ l.found = [local[p].found EXCEPT ![o] = None]
    <2> HIDE DEF scan
    <2> QED
        BY <1>1, <1>3 DEF Local
<1> HIDE DEF l
<1>6. Quiet /\ IndexSound' /\ local'[p] = l /\ \A q \in Plugin : q # p => local'[q] = local[q]
    BY <1>4, <1>5, ForgetsSound DEF Owners!Turn
<1>7. ASSUME NEW q \in Plugin, NEW x \in Parent, local'[q].found[x] # None
      PROVE  Finds(x, local[q].found[x].stamp, local[q].found[x].runs, {})'
    <2>1. local'[q].found[x] = local[q].found[x]
        BY <1>1, <1>5, <1>6, <1>7
    <2>2. Finds(x, local[q].found[x].stamp, local[q].found[x].runs, {})
        BY <1>7, <2>1 DEF OwnersSound, FindingsFit
    <2> QED
        BY <1>6, <2>1, <2>2, FindsStays DEF Quiet
<1>8. ASSUME NEW q \in Plugin, local'[q].scan # None
      PROVE  Finds(local[q].scan.owner, local[q].scan.stamp, local[q].scan.runs, local[q].scan.left)'
    <2>1. CASE q = p
        <3>1. local'[q].scan = scan
            BY <1>5, <1>6, <2>1
        <3>2. /\ local'[q].scan.owner = o /\ local'[q].scan.stamp = index'[o].stamp
              /\ local'[q].scan.runs = {} /\ local'[q].scan.left = Owned
            BY <1>6, <3>1 DEF Quiet
        <3>3. index'[o].stamp \in Nat
            BY <1>6 DEF Quiet, OwnerTypes
        <3> QED
            BY <3>2, <3>3 DEF Finds
    <2>2. CASE q # p
        <3>1. local'[q].scan = local[q].scan /\ local[q].scan.owner \in Parent
            BY <1>6, <1>8, <2>2, LocalFits DEF OwnersSound, Scan
        <3>2. Finds(local[q].scan.owner, local[q].scan.stamp, local[q].scan.runs, local[q].scan.left)
            BY <1>8, <3>1 DEF OwnersSound, FindingsFit
        <3> QED
            BY <1>6, <3>1, <3>2, FindsStays DEF Quiet
    <2> QED
        BY <2>1, <2>2
<1>9. FindingsFit'
    BY <1>7, <1>8 DEF FindingsFit
<1> QED
    BY <1>6, <1>9, QuietSound

LEMMA ScanSound ==
    ASSUME OwnersSound, NEW o \in Parent, NEW stamp, NEW found, NEW left, NEW more, NEW r \in Owned,
           Finds(o, stamp, found, left), r \in left,
           more = found \cup (IF run[r].owner = o /\ run[r].active THEN {[run |-> r, rev |-> run[r].rev]} ELSE {})
    PROVE  Finds(o, stamp, more, left \ {r})
<1>1. run[r].rev \in Nat
    BY DEF OwnersSound, OwnerTypes
<1> SUFFICES ASSUME stamp = index[o].stamp
             PROVE  /\ \A e, f \in more : e.run = f.run => e = f
                    /\ \A e \in more :
                        /\ e.run \notin left \ {r} /\ e.rev <= run[e.run].rev
                        /\ \A f \in index[o].runs : f.run = e.run => f.rev <= e.rev
                    /\ \A q \in Owned : Fine(o, q) /\ run[q].owner = o /\ run[q].active =>
                        q \in left \ {r} \/ \E e \in more : e.run = q
    BY DEF Finds
<1>2. /\ \A e, f \in found : e.run = f.run => e = f
      /\ \A e \in found :
            /\ e.run \notin left /\ e.rev <= run[e.run].rev
            /\ \A f \in index[o].runs : f.run = e.run => f.rev <= e.rev
      /\ \A q \in Owned : Fine(o, q) /\ run[q].owner = o /\ run[q].active =>
            q \in left \/ \E e \in found : e.run = q
    BY DEF Finds
<1>3. CASE run[r].owner = o /\ run[r].active
    <2> DEFINE x == [run |-> r, rev |-> run[r].rev]
    <2>1. more = found \cup {x} /\ x.run = r /\ x.rev = run[r].rev
        BY <1>3
    <2>2. \A f \in index[o].runs : f.run = r => f.rev <= run[r].rev
        BY EntryMarked DEF OwnersSound
    <2>3. run[r].rev <= run[r].rev
        BY <1>1
    <2> HIDE DEF x
    <2> QED
        BY <1>2, <2>1, <2>2, <2>3
<1>4. CASE ~(run[r].owner = o /\ run[r].active)
    <2>1. more = found
        BY <1>4
    <2> QED
        BY <1>2, <1>4, <2>1
<1> QED
    BY <1>3, <1>4

LEMMA ScansSound == ASSUME OwnersSound, NEW p \in Plugin, Owners!Scans(p) PROVE OwnersSound'
<1> DEFINE s == local[p].scan
<1>1. /\ local[p] \in Local /\ local[p].found \in [Parent -> Found \cup {None}]
      /\ s \in Scan /\ s # None
    BY LocalFits DEF OwnersSound, Owners!Scans
<1>2. /\ s.owner \in Parent /\ s.stamp \in Nat /\ s.left \subseteq Owned /\ s.runs \subseteq Rank
    BY <1>1 DEF Scan
<1>3. PICK r \in s.left :
        LET open == run[r].owner = s.owner /\ run[r].active
            runs == s.runs \cup (IF open THEN {[run |-> r, rev |-> run[r].rev]} ELSE {})
        IN  local' = IF s.left = {r}
                     THEN [local EXCEPT ![p] = [@ EXCEPT
                               !.scan = None, !.found[s.owner] = [stamp |-> s.stamp, runs |-> runs]]]
                     ELSE [local EXCEPT ![p].scan = [s EXCEPT !.left = @ \ {r}, !.runs = runs]]
    BY DEF Owners!Scans
<1> DEFINE more == s.runs \cup (IF run[r].owner = s.owner /\ run[r].active
                                THEN {[run |-> r, rev |-> run[r].rev]} ELSE {})
           found == [stamp |-> s.stamp, runs |-> more]
           scan == [s EXCEPT !.left = s.left \ {r}, !.runs = more]
           ended == [local[p] EXCEPT !.scan = None, !.found[s.owner] = found]
           goes == [local[p] EXCEPT !.scan = scan]
<1>4. r \in Owned /\ more \subseteq Rank
    <2>1. run[r].rev \in Nat
        BY <1>2 DEF OwnersSound, OwnerTypes
    <2> QED
        BY <1>2, <2>1 DEF Rank
<1>5. Finds(s.owner, s.stamp, more, s.left \ {r})
    <2>1. Finds(s.owner, s.stamp, s.runs, s.left)
        BY <1>1 DEF OwnersSound, FindingsFit
    <2> QED
        BY <1>2, <1>4, <2>1, ScanSound
<1>6. /\ found \in Found /\ scan \in Scan
      /\ found.stamp = s.stamp /\ found.runs = more
      /\ scan.owner = s.owner /\ scan.stamp = s.stamp /\ scan.runs = more /\ scan.left = s.left \ {r}
    <2> HIDE DEF more, s
    <2> QED
        BY <1>1, <1>2, <1>4 DEF Found, Scan
<1>7. \/ /\ s.left = {r}
         /\ local' = [local EXCEPT ![p] = [@ EXCEPT !.scan = None, !.found[s.owner] = found]]
      \/ local' = [local EXCEPT ![p].scan = scan]
    BY <1>3
<1> HIDE DEF found, scan, more
<1>8. \/ s.left = {r} /\ local' = [local EXCEPT ![p] = ended]
      \/ local' = [local EXCEPT ![p] = goes]
    <2>1. local \in [Plugin -> Local]
        BY DEF OwnersSound, OwnerTypes
    <2>2. CASE /\ s.left = {r}
               /\ local' = [local EXCEPT ![p] = [@ EXCEPT !.scan = None, !.found[s.owner] = found]]
        BY <2>1, <2>2
    <2>3. CASE local' = [local EXCEPT ![p].scan = scan]
        BY <2>1, <2>3
    <2> QED
        BY <1>7, <2>2, <2>3
<1>9. /\ ended \in Local /\ ended.todo = local[p].todo /\ ended.waiting = local[p].waiting
      /\ ended.memo = local[p].memo /\ ended.scan = None
      /\ ended.found = [local[p].found EXCEPT ![s.owner] = found]
    BY <1>1, <1>2, <1>6 DEF Local
<1>10. /\ goes \in Local /\ goes.todo = local[p].todo /\ goes.waiting = local[p].waiting
       /\ goes.memo = local[p].memo /\ goes.scan = scan /\ goes.found = local[p].found
    BY <1>1, <1>6 DEF Local
<1> HIDE DEF ended, goes
<1>11. PICK l \in {ended, goes} : local' = [local EXCEPT ![p] = l] /\ (l = ended => s.left = {r} \/ l = goes)
    BY <1>8
<1>12. Quiet /\ IndexSound' /\ local'[p] = l /\ \A q \in Plugin : q # p => local'[q] = local[q]
    <2>1. /\ l \in Local /\ l.todo = local[p].todo /\ l.waiting \subseteq local[p].waiting
          /\ l.memo = local[p].memo
        BY <1>9, <1>10
    <2> QED
        BY <1>11, <2>1, ForgetsSound DEF Owners!Scans
\* What was kept still fits, and so does what was read.
<1>13. ASSUME NEW o \in Parent, NEW stamp, NEW runs, NEW left, Finds(o, stamp, runs, left)
       PROVE  Finds(o, stamp, runs, left)'
    BY <1>12, <1>13, FindsStays DEF Quiet
<1>14. ASSUME NEW q \in Plugin, NEW o \in Parent, local'[q].found[o] # None
       PROVE  Finds(o, local[q].found[o].stamp, local[q].found[o].runs, {})'
    <2>1. CASE local'[q].found[o] = local[q].found[o]
        BY <1>13, <1>14, <2>1 DEF OwnersSound, FindingsFit
    <2>2. CASE q = p /\ o = s.owner /\ l = ended /\ l # goes
        <3>1. s.left \ {r} = {} /\ local'[q].found[o] = found
            BY <1>1, <1>2, <1>9, <1>11, <1>12, <2>2
        <3>2. found.stamp = s.stamp /\ found.runs = more
            BY <1>6
        <3>3. Finds(o, found.stamp, found.runs, {})
            BY <1>5, <2>2, <3>1, <3>2
        <3> QED
            BY <1>13, <3>1, <3>3
    <2>3. local'[q].found[o] = local[q].found[o] \/ (q = p /\ o = s.owner /\ l = ended /\ l # goes)
        BY <1>1, <1>9, <1>10, <1>12
    <2> QED
        BY <2>1, <2>2, <2>3
<1>15. ASSUME NEW q \in Plugin, local'[q].scan # None
       PROVE  Finds(local[q].scan.owner, local[q].scan.stamp, local[q].scan.runs, local[q].scan.left)'
    <2>1. CASE q = p
        <3>1. local'[q].scan = scan
            BY <1>9, <1>10, <1>12, <1>15, <2>1
        <3>2. scan.owner = s.owner /\ scan.stamp = s.stamp /\ scan.runs = more /\ scan.left = s.left \ {r}
            BY <1>6
        <3>3. Finds(scan.owner, scan.stamp, scan.runs, scan.left)
            BY <1>5, <3>2
        <3> QED
            BY <1>2, <1>13, <3>1, <3>2, <3>3
    <2>2. CASE q # p
        <3>1. local'[q].scan = local[q].scan /\ local[q].scan.owner \in Parent
            BY <1>12, <1>15, <2>2, LocalFits DEF OwnersSound, Scan
        <3> QED
            BY <1>13, <1>15, <3>1 DEF OwnersSound, FindingsFit
    <2> QED
        BY <2>1, <2>2
<1>16. FindingsFit'
    BY <1>14, <1>15 DEF FindingsFit
<1> QED
    BY <1>12, <1>16, QuietSound

-----------------------------------------------------------------------------
(* The index of the runs of a session: commits.                            *)

\* A saver had nothing to do, and has then to tell of the run r that it is its owner's, and that
\* it is not its old owner's.
Committed(p, r, owner, active, status) ==
    /\ run' = [run EXCEPT ![r] = [owner |-> owner, active |-> active, rev |-> saves']]
    /\ saves' = saves + 1 /\ UNCHANGED <<index, untold>>
    /\ local' \in [Plugin -> Local] /\ \A q \in Plugin : q # p => local'[q] = local[q]
    /\ local'[p].waiting = local[p].waiting /\ local'[p].memo = local[p].memo
    /\ local'[p].found = local[p].found /\ local'[p].scan = local[p].scan
    /\ Now(p) = {} /\ \A q \in Plugin : \A w \in Now(q) : w.run # r
    /\ Owners!Refresh(owner, r, saves', TRUE, status) \in Now(p)'
    /\ run[r].owner \notin {None, owner} =>
         Owners!Refresh(run[r].owner, r, saves', FALSE, None) \in Now(p)'
    /\ \A w \in Now(p)' :
         \/ w = Owners!Refresh(owner, r, saves', TRUE, status)
         \/ /\ w = Owners!Refresh(run[r].owner, r, saves', FALSE, None)
            /\ run[r].owner \notin {None, owner}
    /\ SecondsFit(local'[p])

LEMMA CommitTells ==
    ASSUME OwnersSound, NEW p \in Plugin, NEW r \in Owned, NEW owner \in Parent, NEW active \in BOOLEAN,
           NEW status \in {None, active}, Owners!Commit(p, r, owner, active, status)
    PROVE  Committed(p, r, owner, active, status)
<1> DEFINE n == saves + 1
           old == run[r].owner
           add == Owners!Refresh(owner, r, n, TRUE, status)
           removal == Owners!Refresh(old, r, n, FALSE, None)
           more == IF old \in {None, owner} THEN << >> ELSE <<removal>>
           l == [local[p] EXCEPT !.todo = <<add>> \o more]
<1>1. saves' = n /\ UNCHANGED <<index, untold>> /\ Owners!Idle(p) /\ ~Owners!Locked(r)
    BY DEF Owners!Commit
<1>2. /\ run' = [run EXCEPT ![r] = [owner |-> owner, active |-> active, rev |-> saves']]
      /\ local' = [local EXCEPT ![p].todo = <<add>> \o more]
    BY <1>1 DEF Owners!Commit
<1>3. /\ local[p] \in Local /\ local \in [Plugin -> Local]
      /\ n \in Nat /\ old \in Parent \cup {None}
    BY DEF OwnersSound, OwnerTypes
<1>4. add \in Work
    <2> HIDE DEF n
    <2> QED
        BY <1>3 DEF Work, Owners!Refresh
<1>5. old \notin {None, owner} => removal \in Work
    <2> HIDE DEF n, old
    <2> QED
        BY <1>3 DEF Work, Owners!Refresh
<1>6. add.add /\ ~removal.add
    BY DEF Owners!Refresh
<1> HIDE DEF add, removal
<1>7. /\ <<add>> \o more \in Seq(Work)
      /\ (<<add>> \o more)[1] = add
      /\ \/ DOMAIN (<<add>> \o more) = {1} /\ old \in {None, owner}
         \/ /\ DOMAIN (<<add>> \o more) = {1, 2} /\ old \notin {None, owner}
            /\ (<<add>> \o more)[2] = removal
    <2>1. CASE old \in {None, owner}
        <3>1. <<add>> \in Seq(Work) /\ <<add>>[1] = add /\ DOMAIN <<add>> = {1}
            BY <1>4
        <3>2. <<add>> \o more = <<add>>
            BY <2>1, <3>1, ConcatEmptySeq
        <3> QED
            BY <2>1, <3>1, <3>2
    <2>2. CASE old \notin {None, owner}
        <3>1. /\ <<add>> \in Seq(Work) /\ Len(<<add>>) = 1 /\ <<add>>[1] = add
              /\ <<removal>> \in Seq(Work) /\ Len(<<removal>>) = 1 /\ <<removal>>[1] = removal
            BY <1>4, <1>5, <2>2
        <3>2. /\ <<add>> \o <<removal>> \in Seq(Work) /\ Len(<<add>> \o <<removal>>) = 2
              /\ (<<add>> \o <<removal>>)[1] = add /\ (<<add>> \o <<removal>>)[2] = removal
            BY <3>1, ConcatProperties
        <3>3. DOMAIN (<<add>> \o <<removal>>) = {1, 2}
            BY <3>2, LenProperties
        <3> QED
            BY <2>2, <3>2, <3>3
    <2> QED
        BY <2>1, <2>2
<1>8. \A w : w \in {(<<add>> \o more)[i] : i \in DOMAIN (<<add>> \o more)} <=>
                w = add \/ (w = removal /\ old \notin {None, owner})
    BY <1>7
<1>9. \A i \in DOMAIN (<<add>> \o more) : i >= 2 => ~(<<add>> \o more)[i].add
    BY <1>6, <1>7
<1> DEFINE todo == <<add>> \o more
<1> HIDE DEF n, old, todo
<1>10. /\ l \in Local /\ l.todo = todo /\ l.waiting = local[p].waiting
       /\ l.memo = local[p].memo /\ l.found = local[p].found /\ l.scan = local[p].scan
    <2>1. todo \in Seq(Work) /\ l = [local[p] EXCEPT !.todo = todo]
        BY <1>7 DEF todo
    <2> HIDE DEF l
    <2> QED
        BY <1>3, <2>1 DEF Local
<1>11. local' = [local EXCEPT ![p] = l]
    BY <1>2, <1>3
<1> HIDE DEF l
<1>12. local' \in [Plugin -> Local] /\ local'[p] = l /\ \A q \in Plugin : q # p => local'[q] = local[q]
    BY <1>3, <1>10, <1>11
<1>13. \A w : w \in Now(p)' <=> w = add \/ (w = removal /\ old \notin {None, owner})
    BY <1>8, <1>10, <1>12 DEF Now, Owners!Due, todo
<1>14. Now(p) = {} /\ \A q \in Plugin : \A w \in Now(q) : w.run # r
    BY <1>1 DEF Owners!Idle, Owners!Locked, Now, Owners!Due
<1>15. SecondsFit(local'[p])
    BY <1>9, <1>10, <1>12 DEF SecondsFit, todo
<1>16. saves' = saves + 1
    BY <1>1 DEF n
<1> QED
    BY <1>1, <1>2, <1>10, <1>12, <1>13, <1>14, <1>15, <1>16 DEF add, removal, old, Committed

LEMMA CommitSound ==
    ASSUME OwnersSound, NEW p \in Plugin, NEW r \in Owned, NEW owner \in Parent, NEW active \in BOOLEAN,
           NEW status \in {None, active}, Committed(p, r, owner, active, status)
    PROVE  OwnersSound'
<1> DEFINE old == run[r].owner
           add == Owners!Refresh(owner, r, saves', TRUE, status)
           removal == Owners!Refresh(old, r, saves', FALSE, None)
<1>1. /\ run' = [run EXCEPT ![r] = [owner |-> owner, active |-> active, rev |-> saves']]
      /\ saves' = saves + 1 /\ UNCHANGED <<index, untold>>
      /\ local' \in [Plugin -> Local] /\ \A q \in Plugin : q # p => local'[q] = local[q]
      /\ local'[p].waiting = local[p].waiting /\ local'[p].memo = local[p].memo
      /\ local'[p].found = local[p].found /\ local'[p].scan = local[p].scan
      /\ Now(p) = {} /\ \A q \in Plugin : \A w \in Now(q) : w.run # r
      /\ add \in Now(p)' /\ (old \notin {None, owner} => removal \in Now(p)')
      /\ \A w \in Now(p)' : w = add \/ (w = removal /\ old \notin {None, owner})
      /\ SecondsFit(local'[p])
    BY DEF Committed
<1>2. /\ add.owner = owner /\ add.run = r /\ add.rev = saves' /\ add.add /\ add.status = status
      /\ removal.owner = old /\ removal.run = r /\ removal.rev = saves' /\ ~removal.add
    BY DEF Owners!Refresh
<1> HIDE DEF add, removal
<1>3. /\ saves \in Nat /\ saves' \in Nat /\ saves < saves'
      /\ \A q \in Owned : run[q].rev \in Nat /\ run[q].rev <= saves
    BY <1>1 DEF OwnersSound, OwnerTypes, RevisionsFit
<1>4. /\ run'[r].owner = owner /\ run'[r].active = active /\ run'[r].rev = saves'
      /\ \A q \in Owned : q # r => run'[q] = run[q]
    BY <1>1 DEF OwnersSound, OwnerTypes
<1>5. OwnerTypes'
    <2>1. run' \in [Owned -> [owner : Parent \cup {None}, active : BOOLEAN, rev : Nat]]
        <3> DEFINE now == [owner |-> owner, active |-> active, rev |-> saves']
        <3>1. now \in [owner : Parent \cup {None}, active : BOOLEAN, rev : Nat]
            BY <1>3
        <3>2. run' = [run EXCEPT ![r] = now]
            BY <1>1
        <3> HIDE DEF now
        <3> QED
            BY <3>1, <3>2 DEF OwnersSound, OwnerTypes
    <2> QED
        BY <1>1, <1>3, <2>1 DEF OwnersSound, OwnerTypes
<1>6. /\ \A q \in Plugin : Now(q) \subseteq Now(q)' /\ (q # p => Now(q)' = Now(q))
      /\ \A q \in Plugin : \A w \in Pending(q)' : w \in Pending(q) \/ (q = p /\ w \in Now(p)')
      /\ \A q \in Plugin : /\ local'[q].memo = local[q].memo
                           /\ local'[q].found = local[q].found /\ local'[q].scan = local[q].scan
    BY <1>1 DEF Now, Pending
<1>7. ASSUME NEW q \in Owned, NEW k \in Nat, Marked(q, k)'
      PROVE  Marked(q, k) \/ (q = r /\ k = saves')
    <2>1. CASE run'[q].owner # None /\ run'[q].rev = k
        BY <1>4, <2>1 DEF Marked
    <2>2. CASE \E o \in Parent : [run |-> q, rev |-> k] \in index'[o].runs
        BY <1>1, <2>2 DEF Marked
    <2>3. CASE \E x \in Plugin : \E w \in Pending(x)' : w.run = q /\ w.rev = k
        BY <1>1, <1>2, <1>6, <2>3 DEF Marked
    <2> QED
        BY <1>7, <2>1, <2>2, <2>3 DEF Marked
<1>8. ASSUME NEW q \in Owned, NEW k \in Nat, Marked(q, k)
      PROVE  k <= run[q].rev /\ k < saves' /\ \A x \in Owned : Marked(x, k) => x = q
    <2>1. k <= run[q].rev /\ \A x \in Owned : Marked(x, k) => x = q
        BY <1>8 DEF OwnersSound, RevisionsFit
    <2> QED
        BY <1>3, <2>1
<1>9. RevisionsFit'
    <2>1. \A q \in Owned : run'[q].rev <= saves'
        BY <1>3, <1>4
    <2>2. ASSUME NEW q \in Owned, NEW k \in Nat, Marked(q, k)'
          PROVE  k <= run'[q].rev /\ \A x \in Owned : Marked(x, k)' => x = q
        <3>1. k <= run'[q].rev
            BY <1>3, <1>4, <1>7, <1>8, <2>2
        <3>2. ASSUME NEW x \in Owned, Marked(x, k)' PROVE x = q
            BY <1>3, <1>7, <1>8, <2>2, <3>2
        <3> QED
            BY <3>1, <3>2
    <2> QED
        BY <2>1, <2>2 DEF RevisionsFit
<1>10. EntriesFit'
    BY <1>1 DEF OwnersSound, EntriesFit
<1>11. WorkFits'
    <2>1. ASSUME NEW q \in Plugin, NEW w \in Now(q)'
          PROVE  w.rev = run'[w.run].rev /\ (w.add <=> run'[w.run].owner = w.owner)
        <3>1. CASE w \in Now(q)
            <4>1. w.run \in Owned /\ w.run # r
                BY <1>1, <3>1, LocalFits DEF OwnersSound, Work
            <4> QED
                BY <1>4, <3>1, <4>1 DEF OwnersSound, WorkFits
        <3>2. CASE q = p
            BY <1>1, <1>2, <1>4, <2>1, <3>2
        <3> QED
            BY <1>6, <2>1, <3>1, <3>2
    <2>2. ASSUME NEW q \in Plugin, NEW w \in Pending(q)', w.add, w.status # None, w.rev = run'[w.run].rev
          PROVE  run'[w.run].active = w.status
        <3>1. CASE w \in Pending(q)
            <4>1. w.run \in Owned /\ w.rev \in Nat /\ w.rev <= run[w.run].rev
                BY <3>1, WorkMarked DEF OwnersSound
            <4>2. w.run # r
                BY <1>3, <1>4, <2>2, <4>1
            <4> QED
                BY <1>4, <2>2, <3>1, <4>1, <4>2 DEF OwnersSound, WorkFits
        <3>2. CASE q = p /\ w \in Now(p)'
            BY <1>1, <1>2, <1>4, <2>2, <3>2
        <3> QED
            BY <1>6, <2>2, <3>1, <3>2
    <2>3. \A q \in Plugin : SecondsFit(local'[q])
        BY <1>1 DEF OwnersSound, WorkFits, SecondsFit
    <2> QED
        BY <2>1, <2>2, <2>3 DEF WorkFits, SecondsFit
\* What is told now was before, and not of this run but of a session that has not had it.
<1>12. ASSUME NEW o \in Parent, NEW q \in Owned, Owners!Told(o, q)'
       PROVE  Owners!Told(o, q) /\ (q = r => o # owner /\ old # o)
    <2>1. Owners!Told(o, q)
        BY <1>1, <1>6, <1>12 DEF Owners!Told, Now, Owners!Pair
    <2>2. ASSUME q = r PROVE o # owner /\ old # o
        <3>1. \A w \in Now(p)' : <<w.owner, w.run>> # <<o, q>>
            BY <1>12 DEF Owners!Told, Now, Owners!Pair
        <3>2. o # None
            BY OwnerAssumption
        <3> QED
            BY <1>1, <1>2, <2>2, <3>1, <3>2
    <2> QED
        BY <2>1, <2>2
<1>13. IndexSound'
    <2>1. ASSUME NEW o \in Parent, NEW e \in index'[o].runs, Owners!Told(o, e.run)'
          PROVE  run'[e.run].owner = o
        <3>1. e \in index[o].runs /\ e.run \in Owned
            BY <1>1, EntryMarked DEF OwnersSound, Rank
        <3>2. run[e.run].owner = o
            BY <1>12, <2>1, <3>1 DEF OwnersSound, IndexSound
        <3> QED
            BY <1>4, <1>12, <2>1, <3>1, <3>2
    <2>2. ASSUME NEW o \in Parent, NEW q \in Owned, Owners!Known(o, q)'
          PROVE  \E e \in index'[o].runs : e.run = q /\ Ranked(o, e)'
        <3>1. q # r /\ Owners!Known(o, q)
            BY <1>4, <1>12, <2>2 DEF Owners!Known
        <3>2. PICK e \in index[o].runs : e.run = q /\ Ranked(o, e)
            BY <3>1 DEF OwnersSound, IndexSound
        <3>3. run'[e.run] = run[e.run] /\ index' = index
            BY <1>1, <1>4, <3>1, <3>2
        <3>4. ASSUME NEW x \in Plugin, NEW w \in Pending(x)', w.add, w.owner = o, w.run # e.run
              PROVE  ~(run'[e.run].rev >= w.rev /\ w.rev >= e.rev)
            <4>1. CASE w \in Pending(x)
                BY <3>2, <3>3, <3>4, <4>1 DEF Ranked, Between
            <4>2. CASE x = p /\ w \in Now(p)'
                BY <1>1, <1>2, <1>3, <3>2, <3>3, <4>2
            <4> QED
                BY <1>6, <3>4, <4>1, <4>2
        <3> QED
            BY <3>2, <3>3, <3>4 DEF Ranked, Between
    <2> QED
        BY <2>1, <2>2 DEF IndexSound
\* A save that has nothing to tell is of a run that is as the memo has it.
<1>14. ASSUME NEW o \in Parent, NEW q \in Owned, Fine(o, q)'
       PROVE  /\ Fine(o, q)
              /\ q = r => \/ o = owner /\ run[r].owner = owner /\ run[r].active = active
                          \/ o # owner /\ run[r].owner # o
    <2>1. Fine(o, q)
        <3>1. untold' = untold /\ index' = index
            BY <1>1
        <3>2. ASSUME NEW x \in Plugin, NEW w \in Now(x), Owners!Pair(w) = <<o, q>>
              PROVE  Owners!AlreadyCurrent(local[x], w)
            <4>1. w \in Now(x)' /\ local'[x].memo = local[x].memo
                BY <1>1, <1>6, <3>2
            <4>2. Owners!AlreadyCurrent(local[x], w)'
                BY <1>14, <3>2, <4>1 DEF Fine, Owners!Pair
            <4> QED
                BY <3>1, <4>1, <4>2 DEF Owners!AlreadyCurrent
        <3> QED
            BY <1>14, <3>1, <3>2 DEF Fine
    <2>2. ASSUME NEW w \in Now(p)', w.owner = o, w.run = q
          PROVE  Owners!AlreadyCurrent(local[p], w)
        <3>1. Owners!AlreadyCurrent(local[p], w)'
            BY <1>14, <2>2 DEF Fine, Owners!Pair
        <3> QED
            BY <1>1, <3>1 DEF Owners!AlreadyCurrent
    <2>3. CASE q = r /\ o = owner
        <3>1. Owners!AlreadyCurrent(local[p], add)
            BY <1>1, <1>2, <2>2, <2>3
        <3>2. status # None /\ status = active
            BY <1>2, <3>1 DEF Owners!AlreadyCurrent
        <3>3. local[p].memo[o] = [run |-> r, status |-> active, stamp |-> index[o].stamp]
            BY <1>2, <2>3, <3>1, <3>2 DEF Owners!AlreadyCurrent
        <3>4. local[p].memo[o] \in Memo
            BY <3>3 DEF Memo, OwnersSound, OwnerTypes
        <3>5. Remembers(p, o) /\ local[p].memo[o].run = r /\ local[p].memo[o].status = active
            BY <3>3, <3>4, OwnerAssumption DEF Remembers, Memo
        <3> QED
            BY <2>1, <2>3, <3>5 DEF OwnersSound, MemosFit, MemoFits
    <2>4. CASE q = r /\ o # owner
        <3>1. ASSUME run[r].owner = o PROVE FALSE
            <4>1. removal \in Now(p)' /\ removal.owner = o /\ removal.run = q
                BY <1>1, <1>2, <2>4, <3>1, OwnerAssumption
            <4> QED
                BY <1>2, <2>2, <4>1 DEF Owners!AlreadyCurrent
        <3> QED
            BY <2>1, <2>4, <3>1
    <2> QED
        BY <2>1, <2>3, <2>4
<1>15. MemosFit'
    <2>1. ASSUME NEW q \in Plugin, NEW o \in Parent, Remembers(q, o)'
          PROVE  MemoFits(q, o)'
        <3>1. Remembers(q, o)
            BY <1>1, <1>6, <2>1 DEF Remembers
        <3>2. MemoFits(q, o) /\ local[q].memo[o].run \in Owned /\ local'[q].memo[o] = local[q].memo[o]
            BY <1>6, <3>1, LocalFits DEF OwnersSound, MemosFit, Remembers, Memo
        <3>3. ASSUME Fine(o, local[q].memo[o].run)'
              PROVE  /\ run'[local[q].memo[o].run].owner = o
                     /\ run'[local[q].memo[o].run].active = local[q].memo[o].status
            <4> DEFINE x == local[q].memo[o].run
            <4>1. x \in Owned /\ local'[q].memo[o].run = x
                BY <3>2
            <4>2. Fine(o, x)'
                BY <3>3, <4>1
            <4>3. /\ Fine(o, x)
                  /\ x = r => \/ o = owner /\ run[r].owner = owner /\ run[r].active = active
                              \/ o # owner /\ run[r].owner # o
                <5> HIDE DEF x
                <5>1. \A y \in Owned : Fine(o, y)' =>
                        /\ Fine(o, y)
                        /\ y = r => \/ o = owner /\ run[r].owner = owner /\ run[r].active = active
                                    \/ o # owner /\ run[r].owner # o
                    BY <1>14
                <5> QED
                    BY <4>1, <4>2, <5>1 DEF x
            <4>4. run[x].owner = o /\ run[x].active = local[q].memo[o].status
                BY <3>2, <4>3 DEF MemoFits
            <4>5. CASE x = r
                BY <1>4, <4>3, <4>4, <4>5
            <4>6. CASE x # r
                BY <1>4, <4>1, <4>4, <4>6
            <4> QED
                BY <4>5, <4>6
        <3> QED
            BY <1>1, <3>2, <3>3 DEF MemoFits
    <2> QED
        BY <1>1, <1>6, <2>1 DEF OwnersSound, MemosFit
<1>16. ASSUME NEW o \in Parent, NEW stamp, NEW found, NEW left, found \subseteq Rank,
              Finds(o, stamp, found, left)
       PROVE  Finds(o, stamp, found, left)'
    <2>1. ASSUME NEW e \in found, e.rev <= run[e.run].rev
          PROVE  e.rev <= run'[e.run].rev
        <3>1. e.run \in Owned /\ e.rev \in Nat
            BY <1>16 DEF Rank
        <3> QED
            BY <1>3, <1>4, <2>1, <3>1
    <2>2. ASSUME NEW q \in Owned, Fine(o, q)', run'[q].owner = o, run'[q].active
          PROVE  Fine(o, q) /\ run[q].owner = o /\ run[q].active
        <3>1. CASE q = r
            BY <1>4, <1>14, <2>2, <3>1
        <3>2. CASE q # r
            BY <1>4, <1>14, <2>2, <3>2
        <3> QED
            BY <3>1, <3>2
    <2> QED
        BY <1>1, <1>16, <2>1, <2>2 DEF Finds
<1>17. FindingsFit'
    <2>1. ASSUME NEW q \in Plugin, NEW o \in Parent, local'[q].found[o] # None
          PROVE  Finds(o, local[q].found[o].stamp, local[q].found[o].runs, {})'
        <3>1. local'[q].found[o] = local[q].found[o] /\ local[q].found[o].runs \subseteq Rank
            BY <1>6, <2>1, LocalFits DEF OwnersSound, Found
        <3> QED
            BY <1>16, <2>1, <3>1 DEF OwnersSound, FindingsFit
    <2>2. ASSUME NEW q \in Plugin, local'[q].scan # None
          PROVE  Finds(local[q].scan.owner, local[q].scan.stamp, local[q].scan.runs, local[q].scan.left)'
        <3>1. local'[q].scan = local[q].scan /\ local[q].scan.owner \in Parent /\ local[q].scan.runs \subseteq Rank
            BY <1>6, <2>2, LocalFits DEF OwnersSound, Scan
        <3> QED
            BY <1>16, <2>2, <3>1 DEF OwnersSound, FindingsFit
    <2> QED
        BY <2>1, <2>2 DEF FindingsFit
<1> QED
    BY <1>5, <1>9, <1>10, <1>11, <1>13, <1>15, <1>17 DEF OwnersSound

-----------------------------------------------------------------------------
(* The index of the runs of a session: the theorem.                        *)

\* The index counts its runs as FiniteSets does.
LEMMA SameCardinality == \A S : Owners!Cardinality(S) = Cardinality(S)
BY DEF Owners!Cardinality, Cardinality

LEMMA OwnersInit == ASSUME Owners!Init PROVE OwnersSound
<1>1. PICK o \in Parent, kept \in {{}, Owned} : \E rev \in [kept -> 1..Owners!Cardinality(kept)] :
        /\ \A r, q \in kept : r # q => rev[r] # rev[q]
        /\ run = [r \in Owned |-> IF r \in kept THEN [owner |-> o, active |-> TRUE, rev |-> rev[r]]
                                  ELSE [owner |-> None, active |-> FALSE, rev |-> 0]]
        /\ index = [s \in Parent |-> IF s = o /\ kept # {}
                       THEN [stamp |-> 1, runs |-> {[run |-> r, rev |-> rev[r]] : r \in kept}]
                       ELSE [stamp |-> 0, runs |-> {}]]
        /\ saves = Owners!Cardinality(Owned)
    BY Zenon DEF Owners!Init
<1>2. PICK rev \in [kept -> 1..Owners!Cardinality(kept)] :
        /\ \A r, q \in kept : r # q => rev[r] # rev[q]
        /\ run = [r \in Owned |-> IF r \in kept THEN [owner |-> o, active |-> TRUE, rev |-> rev[r]]
                                  ELSE [owner |-> None, active |-> FALSE, rev |-> 0]]
        /\ index = [s \in Parent |-> IF s = o /\ kept # {}
                       THEN [stamp |-> 1, runs |-> {[run |-> r, rev |-> rev[r]] : r \in kept}]
                       ELSE [stamp |-> 0, runs |-> {}]]
        /\ saves = Owners!Cardinality(Owned)
    BY <1>1
<1>3. Owners!Cardinality(Owned) \in Nat /\ saves \in Nat
    BY <1>2, SameCardinality, FS_CardinalityType, OwnerAssumption
<1>4. kept \subseteq Owned /\ \A r \in kept : rev[r] \in Nat /\ rev[r] <= saves
    <2>1. CASE kept = {}
        BY <2>1
    <2>2. CASE kept = Owned
        BY <1>2, <1>3, <2>2
    <2> QED
        BY <1>1, <2>1, <2>2
<1>5. \A r \in kept : run[r].owner = o /\ run[r].active = TRUE /\ run[r].rev = rev[r]
    BY <1>2, <1>4
<1>6. \A r \in Owned \ kept : run[r].owner = None /\ run[r].active = FALSE /\ run[r].rev = 0
    BY <1>2
<1> DEFINE entries == {[run |-> r, rev |-> rev[r]] : r \in kept}
<1>7. \A e : e \in entries <=> \E r \in kept : e = [run |-> r, rev |-> rev[r]]
    OBVIOUS
<1>8. index = [s \in Parent |-> IF s = o /\ kept # {} THEN [stamp |-> 1, runs |-> entries]
                                ELSE [stamp |-> 0, runs |-> {}]]
    BY <1>2
<1> HIDE DEF entries
<1>9. /\ \A s \in Parent : s = o /\ kept # {} => index[s].stamp = 1 /\ index[s].runs = entries
      /\ \A s \in Parent : ~(s = o /\ kept # {}) => index[s].stamp = 0 /\ index[s].runs = {}
    BY <1>8
<1>10. \A s \in Parent : \A e \in index[s].runs :
        s = o /\ e.run \in kept /\ e.rev = rev[e.run] /\ e = [run |-> e.run, rev |-> rev[e.run]]
    BY <1>7, <1>9
<1>11. \A p \in Plugin : local[p] = Owners!NoLocal /\ Now(p) = {} /\ Pending(p) = {}
    BY DEF Owners!Init, Owners!NoLocal, Owners!Due, Now, Pending
<1>12. \A p \in Plugin, s \in Parent :
        local[p].todo = << >> /\ local[p].memo[s] = None /\ local[p].found[s] = None /\ local[p].scan = None
    BY <1>11 DEF Owners!NoLocal
<1>13. OwnerTypes
    <2>1. run \in [Owned -> [owner : Parent \cup {None}, active : BOOLEAN, rev : Nat]]
        <3>1. \A r \in Owned :
                (IF r \in kept THEN [owner |-> o, active |-> TRUE, rev |-> rev[r]]
                 ELSE [owner |-> None, active |-> FALSE, rev |-> 0])
                \in [owner : Parent \cup {None}, active : BOOLEAN, rev : Nat]
            BY <1>4
        <3> QED
            BY <1>2, <3>1
    <2>2. index \in [Parent -> [stamp : Nat, runs : SUBSET Rank]]
        <3>1. entries \in SUBSET Rank
            BY <1>4, <1>7 DEF Rank
        <3>2. \A s \in Parent : (IF s = o /\ kept # {} THEN [stamp |-> 1, runs |-> entries]
                                 ELSE [stamp |-> 0, runs |-> {}]) \in [stamp : Nat, runs : SUBSET Rank]
            BY <3>1
        <3> QED
            BY <1>8, <3>2
    <2>3. Owners!NoLocal \in Local
        <3>1. << >> \in Seq(Work)
            BY EmptySeq
        <3> QED
            BY <3>1 DEF Owners!NoLocal, Local
    <2>4. local \in [Plugin -> Local]
        BY <2>3 DEF Owners!Init
    <2> QED
        BY <1>3, <2>1, <2>2, <2>4 DEF OwnerTypes
<1>14. ASSUME NEW r \in Owned, NEW k \in Nat, Marked(r, k)
       PROVE  r \in kept /\ k = rev[r]
    <2>1. CASE run[r].owner # None /\ run[r].rev = k
        BY <1>5, <1>6, <2>1
    <2>2. CASE \E s \in Parent : [run |-> r, rev |-> k] \in index[s].runs
        BY <1>10, <2>2
    <2> QED
        BY <1>11, <1>14, <2>1, <2>2 DEF Marked
<1>15. RevisionsFit
    <2>1. \A r \in Owned : run[r].rev <= saves
        BY <1>3, <1>4, <1>5, <1>6
    <2>2. ASSUME NEW r \in Owned, NEW k \in Nat, Marked(r, k)
          PROVE  k <= run[r].rev /\ \A q \in Owned : Marked(q, k) => q = r
        BY <1>2, <1>4, <1>5, <1>14, <2>2
    <2> QED
        BY <2>1, <2>2 DEF RevisionsFit
<1>16. EntriesFit
    <2>1. ASSUME NEW s \in Parent
          PROVE  \A e, f \in index[s].runs : e.run = f.run => e = f
        BY <1>10
    <2>2. ASSUME NEW s \in Parent, index[s].stamp = 0
          PROVE  index[s].runs = {}
        BY <1>9, <2>2
    <2> QED
        BY <2>1, <2>2 DEF EntriesFit
<1>17. WorkFits
    BY <1>11, <1>12 DEF WorkFits
<1>18. IndexSound
    <2>1. \A s \in Parent : \A e \in index[s].runs : run[e.run].owner = s
        BY <1>5, <1>10
    <2>2. ASSUME NEW s \in Parent, NEW r \in Owned, Owners!Known(s, r)
          PROVE  \E e \in index[s].runs : e.run = r /\ Ranked(s, e)
        <3>1. s = o /\ r \in kept
            BY <1>5, <1>6, <2>2, OwnerAssumption DEF Owners!Known
        <3>2. [run |-> r, rev |-> rev[r]] \in index[s].runs
            BY <1>7, <1>9, <3>1
        <3>3. PICK e \in index[s].runs : e.run = r /\ e.rev = rev[r]
            BY <3>2
        <3>4. ASSUME NEW f \in index[s].runs, f.run # r
              PROVE  ~Between(e, f.rev)
            <4>1. f.run \in kept /\ f.rev = rev[f.run] /\ rev[f.run] # rev[r] /\ rev[f.run] \in Nat /\ rev[r] \in Nat
                BY <1>2, <1>4, <1>10, <3>1, <3>4
            <4>2. run[e.run].rev = rev[r]
                BY <1>5, <3>1, <3>3
            <4> QED
                BY <3>3, <4>1, <4>2 DEF Between
        <3> QED
            BY <1>11, <3>3, <3>4 DEF Ranked
    <2> QED
        BY <2>1, <2>2 DEF IndexSound
<1>19. MemosFit /\ FindingsFit
    BY <1>12 DEF MemosFit, FindingsFit, Remembers
<1> QED
    BY <1>13, <1>15, <1>16, <1>17, <1>18, <1>19 DEF OwnersSound

LEMMA OwnersNext == ASSUME OwnersSound, Owners!Next PROVE OwnersSound'
<1>1. PICK p \in Plugin :
        \/ Owners!Create(p) \/ Owners!Save(p) \/ Owners!TakeOver(p) \/ Owners!Refreshes(p)
        \/ Owners!TriesAgain(p) \/ Owners!Turn(p) \/ Owners!Scans(p) \/ Owners!Dies(p)
    BY DEF Owners!Next
<1>2. CASE Owners!Create(p) \/ Owners!Save(p) \/ Owners!TakeOver(p)
    <2>1. \E r \in Owned, owner \in Parent, active \in BOOLEAN : \E status \in {None, active} :
            Owners!Commit(p, r, owner, active, status)
        <3>1. CASE Owners!Create(p) \/ Owners!TakeOver(p)
            BY <3>1 DEF Owners!Create, Owners!TakeOver
        <3>2. CASE Owners!Save(p)
            BY <3>2 DEF Owners!Save, OwnersSound, OwnerTypes
        <3> QED
            BY <1>2, <3>1, <3>2
    <2>2. PICK r \in Owned, owner \in Parent, active \in BOOLEAN : \E status \in {None, active} :
            Owners!Commit(p, r, owner, active, status)
        BY <2>1
    <2>3. PICK status \in {None, active} : Owners!Commit(p, r, owner, active, status)
        BY <2>2
    <2>4. Committed(p, r, owner, active, status)
        BY <2>3, CommitTells
    <2> QED
        BY <2>4, CommitSound
<1> QED
    BY <1>1, <1>2, RefreshesSound, TriesAgainSound, TurnSound, ScansSound, DiesSound

OwnersInvariant == by = "owners" => OwnersSound

LEMMA OwnersStutter ==
    ASSUME OwnersSound, UNCHANGED vars
    PROVE  OwnersSound'
<1>1. UNCHANGED <<run, index, local, untold, saves>>
    BY DEF vars, ownerVars
<1>2. /\ \A p \in Plugin : Now(p)' = Now(p) /\ Pending(p)' = Pending(p)
      /\ \A p \in Plugin : local'[p] = local[p]
    BY <1>1 DEF Now, Pending
<1>3. OwnerTypes'
    BY <1>1 DEF OwnersSound, OwnerTypes
<1>4. LessWork
    BY <1>2 DEF LessWork, SameWork, SecondsFit, OwnersSound, WorkFits
<1>5. /\ \A o \in Parent, r \in Owned : Fine(o, r)' => Fine(o, r)
      /\ \A o \in Parent, r \in Owned : Owners!Told(o, r)' => Owners!Told(o, r)
    BY <1>1, <1>2 DEF Fine, Owners!Told, Owners!AlreadyCurrent
<1>6. Quiet
    BY <1>1, <1>2, <1>3, <1>4, <1>5 DEF Quiet
<1> QED
    BY <1>2, <1>5, <1>6, QuietIndex, QuietFindings, QuietSound

\* The comment of src/store.ts:3026, for any number of processes, sessions and runs, whatever
\* fails or dies: the index of a session lists the runs of that session of which it was told and
\* no others, in the order of their saves, and what was found of it and is still used has every
\* incomplete one (refreshOwnerRunIndex, findLatestIncompleteRunForTurn).
THEOREM OwnersAreTrue == Spec => []OwnersTrue
<1>1. Init => OwnersInvariant
    BY OwnersInit DEF Init, OwnersInvariant
<1>2. OwnersInvariant /\ [Next]_vars => OwnersInvariant'
    <2> SUFFICES ASSUME OwnersInvariant, [Next]_vars PROVE OwnersInvariant'
        OBVIOUS
    <2>1. CASE by = "owners" /\ Owners!Next /\ UNCHANGED by
        BY <2>1, OwnersNext DEF OwnersInvariant
    <2>2. CASE by # "owners" /\ UNCHANGED by
        BY <2>2 DEF OwnersInvariant
    <2>3. CASE UNCHANGED vars
        <3>1. by' = by
            BY <2>3 DEF vars
        <3> QED
            BY <2>3, <3>1, OwnersStutter DEF OwnersInvariant
    <2> QED
        BY <2>1, <2>2, <2>3 DEF Next
<1>3. OwnersInvariant => OwnersTrue
    BY OwnersPromise DEF OwnersInvariant, OwnersTrue
<1> QED
    BY <1>1, <1>2, <1>3, PTL DEF Spec

-----------------------------------------------------------------------------
(* The files of a run: the inductive invariant.                            *)

Digit == {Objects!Running, Objects!Settled}
Record == [n : Nat, sha : Digit, fixed : BOOLEAN]
Archive == [n : {0}, sha : Seq(Record), fixed : BOOLEAN]
Item == Record \cup Archive
Saved == [revision : Nat, tail : Seq(Record), archive : Archive \cup {None}, ok : BOOLEAN]
Copied == [revision : Nat, archive : Archive \cup {None}, tail : Seq(Digit)]

LEMMA ObjectFacts ==
    None \notin Archive \cup Saved /\ Fixed \notin Digit \cup Seq(Record) /\ Inline \in Nat
BY ObjectAssumption DEF Archive, Saved, Record, Digit, Objects!Running, Objects!Settled

\* A file is as it was when it was referred to, unless it was damaged from outside since.
Intact(r) == Objects!Verified(r) \/ Objects!Name(r) \in hurt
Whole(m) == \A r \in Objects!Reach(m) : Intact(r)
Numbered(m) == \A i, j \in DOMAIN m.tail : m.tail[i].n = m.tail[j].n => i = j
Addressed(m) == m \in Saved /\ Numbered(m) /\ \A r \in Objects!Reach(m) : ~r.fixed
Items(t) == Objects!Range(t)
Grows(old, new) == Len(old) <= Len(new) /\ \A i \in DOMAIN old : old[i] <= new[i]

ObjFiles ==
    /\ manifest \in Saved \cup {None} /\ backup \in Saved \cup {None}
    /\ manifest # None => Numbered(manifest) /\ Whole(manifest)
    /\ backup # None => Whole(backup)
\* One process at a time has the mirror mutex.
ObjHeld ==
    /\ DOMAIN save = Caller
    /\ \A p, q \in Caller : save[p].pc \in Objects!Locked /\ save[q].pc \in Objects!Locked => p = q

Shape(s) ==
    s = [pc |-> s.pc, copy |-> s.copy, next |-> s.next, todo |-> s.todo, kept |-> s.kept,
         unsure |-> s.unsure, staged |-> s.staged, before |-> s.before]
ObjTyped(s) ==
    /\ Shape(s) /\ s.todo \in Seq(Item)
    /\ s.pc \in {"idle", "load", "has", "publish", "mirrors", "rotate"}
    /\ s.pc \in Objects!Locked => manifest # None
    /\ s.pc \in {"load", "has"} => s.copy \in Copied
    /\ s.pc \in {"publish", "mirrors", "rotate"} => Addressed(s.next)
\* What the manifest and its backup lead to is among what no mirror may touch.
Spared(s) ==
    s.pc \in {"load", "publish", "mirrors"} /\ ~s.unsure =>
        \A m \in {manifest, backup} \ {None} : \A r \in Objects!Reach(m) : Objects!Name(r) \in s.kept
\* What a save refers to is still to be written, or whole; what was damaged before it, verified.
Stored(s, r) == Intact(r) /\ (Objects!Name(r) \in s.before => Objects!Verified(r))
Publishes(s) ==
    /\ s.pc = "publish" =>
        /\ Items(s.todo) \subseteq Objects!Reach(s.next)
        /\ \A r \in Objects!Reach(s.next) : r \in Items(s.todo) \/ Stored(s, r)
    /\ s.pc = "mirrors" => \A r \in Objects!Reach(s.next) : Stored(s, r)
    /\ s.pc = "rotate" => s.staged \in Saved /\ Whole(s.staged)
\* Mirrors have the fixed names; a load has made those that it is past.
Mirroring(s) ==
    /\ s.pc \in {"load", "mirrors"} => \A r \in Items(s.todo) : r.fixed
    /\ s.pc = "load" => Items(s.todo) \subseteq Items(Objects!MirrorsOf(manifest.tail))
    /\ s.pc = "load" => \A r \in Items(Objects!MirrorsOf(manifest.tail)) :
        \/ r \in Items(s.todo) \/ Objects!Verified(r)
        \/ Objects!Name(r) \in hurt \cup s.kept \/ s.unsure
\* A copy has the attempts of its revision; what is saved has as many or more, none set back.
CopyContents(c) == Objects!Archived(c.archive) \o c.tail
CopyFits(c) ==
    manifest # None =>
        /\ c.revision <= manifest.revision
        /\ c.revision = manifest.revision => CopyContents(c) = Objects!Contents(manifest)
Copies(s) ==
    /\ s.pc \in {"load", "has"} => CopyFits(s.copy)
    /\ s.pc \in {"publish", "mirrors"} =>
        /\ s.next.revision = manifest.revision + 1
        /\ Grows(Objects!Contents(manifest), Objects!Contents(s.next))
    /\ s.pc = "rotate" =>
        /\ s.next.revision = manifest.revision
        /\ Objects!Contents(s.next) = Objects!Contents(manifest)
Works(s) == ObjTyped(s) /\ Spared(s) /\ Publishes(s) /\ Mirroring(s) /\ Copies(s)
ObjectsSound == ObjFiles /\ ObjHeld /\ \A p \in Caller : Works(save[p])

-----------------------------------------------------------------------------
(* The files of a run: what a manifest leads to.                           *)

LEMMA InRange == \A t, i : i \in DOMAIN t => t[i] \in Items(t)
BY DEF Items, Objects!Range
LEMMA RangeIs == \A t : Items(t) = {t[i] : i \in DOMAIN t}
BY DEF Items, Objects!Range

LEMMA ReachItems ==
    ASSUME NEW m \in Saved
    PROVE  Objects!Reach(m) \subseteq Item
<1>1. m.tail \in Seq(Record) /\ m.archive \in Archive \cup {None}
    BY DEF Saved
<1>2. Objects!Range(m.tail) \subseteq Record
    BY <1>1 DEF Objects!Range
<1>3. Objects!Range(Objects!History(m)) \subseteq Record
    BY <1>1 DEF Objects!Range, Objects!History, Archive
<1> QED
    BY <1>1, <1>2, <1>3 DEF Objects!Reach, Objects!Refs, Item

\* A content-addressed name says the content; a fixed one is the number's.
LEMMA NamesSay ==
    ASSUME NEW r \in Item, NEW q \in Item, Objects!Name(r) = Objects!Name(q)
    PROVE  r.n = q.n /\ r.fixed = q.fixed /\ (~r.fixed => r.sha = q.sha)
<1>1. /\ r.sha \in Digit \cup Seq(Record) /\ q.sha \in Digit \cup Seq(Record)
      /\ r.fixed \in BOOLEAN /\ q.fixed \in BOOLEAN
    BY DEF Item, Record, Archive
<1>2. r.sha # Fixed /\ q.sha # Fixed
    BY <1>1, ObjectFacts
<1> QED
    BY <1>1, <1>2 DEF Objects!Name

\* What a manifest of these records is (projectRunState, or an earlier version).
Built(revision, contents, fixed) ==
    LET refs == [i \in DOMAIN contents |-> Objects!Ref(i, contents[i], fixed)]
        cut == IF Len(refs) > Inline THEN Len(refs) - Inline ELSE 0
    IN Objects!Manifest(revision, SubSeq(refs, cut + 1, Len(refs)),
                        IF cut = 0 THEN None ELSE Objects!Ref(0, SubSeq(refs, 1, cut), fixed))
LEMMA BuiltSo ==
    /\ \A v, c : Objects!Project(v, c) = Built(v, c, FALSE)
    /\ \A v, c : Objects!Legacy(v, c) = Built(v, c, TRUE)
BY DEF Objects!Project, Objects!Legacy, Built
LEMMA BuiltFits ==
    ASSUME NEW v \in Nat, NEW c \in Seq(Digit), NEW f \in BOOLEAN
    PROVE  LET m == Built(v, c, f) IN
           /\ m \in Saved /\ m.revision = v /\ m.ok /\ Numbered(m)
           /\ \A r \in Objects!Reach(m) : r.fixed = f
           /\ \A r, q \in Objects!Reach(m) : r.n = q.n => r = q
           /\ Objects!Contents(m) = c
<1> DEFINE n == Len(c)
           refs == [i \in DOMAIN c |-> Objects!Ref(i, c[i], f)]
           cut == IF Len(refs) > Inline THEN Len(refs) - Inline ELSE 0
           tail == SubSeq(refs, cut + 1, Len(refs))
           head == SubSeq(refs, 1, cut)
           archive == IF cut = 0 THEN None ELSE Objects!Ref(0, head, f)
           m == Built(v, c, f)
<1>1. n \in Nat /\ DOMAIN c = 1 .. n /\ \A i \in 1 .. n : c[i] \in Digit
    OBVIOUS
<1>2. \A i \in 1 .. n : /\ Objects!Ref(i, c[i], f) \in Record
                        /\ Objects!Ref(i, c[i], f).n = i /\ Objects!Ref(i, c[i], f).sha = c[i]
                        /\ Objects!Ref(i, c[i], f).fixed = f
    BY <1>1 DEF Objects!Ref, Record
<1>3. /\ refs \in Seq(Record) /\ Len(refs) = n /\ DOMAIN refs = 1 .. n
      /\ \A i \in 1 .. n : refs[i].n = i /\ refs[i].sha = c[i] /\ refs[i].fixed = f
    <2>1. refs = [i \in 1 .. n |-> Objects!Ref(i, c[i], f)]
        BY <1>1
    <2> QED
        BY <1>1, <1>2, <2>1
<1>4. m = Objects!Manifest(v, tail, archive)
    BY DEF Built
<1> HIDE DEF refs, m
<1>5. cut \in 0 .. n
    BY <1>1, <1>3, ObjectFacts
<1> HIDE DEF cut
<1>6. /\ tail \in Seq(Record) /\ Len(tail) = n - cut /\ \A i \in 1 .. n - cut : tail[i] = refs[i + cut]
    BY <1>1, <1>3, <1>5
<1>7. head \in Seq(Record) /\ Len(head) = cut /\ \A i \in 1 .. cut : head[i] = refs[i]
    BY <1>1, <1>3, <1>5
<1> HIDE DEF tail, head
<1>8. /\ cut # 0 => archive = Objects!Ref(0, head, f) /\ archive \in Archive /\ archive.n = 0
                    /\ archive.sha = head /\ archive.fixed = f /\ archive # None
      /\ cut = 0 => archive = None
    BY <1>7, ObjectFacts DEF Objects!Ref, Archive
<1> HIDE DEF archive
<1>9. m \in Saved /\ m.revision = v /\ m.ok /\ m.tail = tail /\ m.archive = archive
    BY <1>4, <1>6, <1>8 DEF Objects!Manifest, Saved
<1>10. Numbered(m)
    BY <1>3, <1>5, <1>6, <1>9 DEF Numbered
<1>11. \A r \in Objects!Reach(m) : (\E i \in 1 .. n : r = refs[i]) \/ (r = archive /\ cut # 0)
    <2>1. Objects!Range(tail) \subseteq {refs[i] : i \in 1 .. n}
        BY <1>1, <1>5, <1>6 DEF Objects!Range
    <2>2. Objects!Range(Objects!History(m)) \subseteq {refs[i] : i \in 1 .. n}
        BY <1>1, <1>5, <1>7, <1>8, <1>9 DEF Objects!Range, Objects!History
    <2> QED
        BY <1>8, <1>9, <2>1, <2>2 DEF Objects!Reach, Objects!Refs
<1>12. \A r \in Objects!Reach(m) : r.fixed = f
    BY <1>3, <1>8, <1>11
<1>13. \A r, q \in Objects!Reach(m) : r.n = q.n => r = q
    BY <1>1, <1>3, <1>8, <1>11
<1>14. Objects!Contents(m) = c
    <2>1. Objects!Archived(archive) = [i \in 1 .. cut |-> c[i]]
        <3>1. CASE cut = 0
            BY <1>8, <3>1 DEF Objects!Archived
        <3>2. CASE cut # 0
            BY <1>3, <1>5, <1>7, <1>8, <3>2 DEF Objects!Archived
        <3> QED
            BY <3>1, <3>2
    <2>2. [i \in DOMAIN tail |-> tail[i].sha] = [i \in 1 .. n - cut |-> c[i + cut]]
        BY <1>1, <1>3, <1>5, <1>6
    <2>3. Objects!Contents(m) = [i \in 1 .. cut |-> c[i]] \o [i \in 1 .. n - cut |-> c[i + cut]]
        BY <1>9, <2>1, <2>2 DEF Objects!Contents
    <2>4. [i \in 1 .. cut |-> c[i]] \in Seq(Digit) /\ [i \in 1 .. n - cut |-> c[i + cut]] \in Seq(Digit)
        BY <1>1, <1>5
    <2> DEFINE a == [i \in 1 .. cut |-> c[i]]
               b == [i \in 1 .. n - cut |-> c[i + cut]]
    <2>5. Len(a) = cut /\ Len(b) = n - cut /\ (\A i \in 1 .. cut : a[i] = c[i])
          /\ \A i \in 1 .. n - cut : b[i] = c[i + cut]
        BY <1>1, <1>5
    <2>6. a \in Seq(Digit) /\ b \in Seq(Digit)
        BY <2>4
    <2> HIDE DEF a, b
    <2>7. a \o b \in Seq(Digit) /\ Len(a \o b) = n /\ \A i \in 1 .. n : (a \o b)[i] = c[i]
        <3>1. /\ a \o b \in Seq(Digit) /\ Len(a \o b) = Len(a) + Len(b)
              /\ \A i \in 1 .. Len(a) + Len(b) :
                    (a \o b)[i] = IF i <= Len(a) THEN a[i] ELSE b[i - Len(a)]
            BY <2>6, ConcatProperties
        <3>2. /\ cut \in Int /\ n \in Int /\ 0 <= cut /\ cut <= n
            BY <1>1, <1>5
        <3>3. Len(a) + Len(b) = n
            BY <2>5, <3>2
        <3>4. ASSUME NEW i \in 1 .. n PROVE (a \o b)[i] = c[i]
            <4>1. CASE i <= cut
                BY <2>5, <3>1, <3>2, <3>3, <4>1
            <4>2. CASE i > cut
                <5>1. i - cut \in 1 .. n - cut /\ (i - cut) + cut = i
                    BY <3>2, <4>2
                <5> QED
                    BY <2>5, <3>1, <3>2, <3>3, <4>2, <5>1
            <4> QED
                <5>1. i \in Int /\ cut \in Int
                    BY <3>2
                <5>2. i <= cut \/ i > cut
                    BY <5>1
                <5> QED
                    BY <4>1, <4>2, <5>2
        <3> QED
            BY <3>1, <3>3, <3>4
    <2>8. a \o b = c
        BY <1>1, <2>7, SeqEqual
    <2> QED
        BY <2>3, <2>8 DEF a, b
<1> QED
    BY <1>9, <1>10, <1>12, <1>13, <1>14 DEF m

-----------------------------------------------------------------------------
(* The files of a run: steps that write no file.                           *)

LEMMA QuietStep ==
    ASSUME ObjectsSound, NEW p \in Caller, NEW s, Objects!Goes(p, s),
           UNCHANGED <<manifest, backup, files, hurt>>,
           s.pc \in Objects!Locked => save[p].pc \in Objects!Locked \/ Objects!Free,
           Works(s)
    PROVE  ObjectsSound'
<1>1. ObjFiles /\ ObjHeld /\ \A q \in Caller : Works(save[q])
    BY DEF ObjectsSound
<1>2. DOMAIN save' = Caller /\ save'[p] = s /\ \A q \in Caller \ {p} : save'[q] = save[q]
    BY <1>1 DEF Objects!Goes, ObjHeld
<1>3. ObjFiles'
    BY <1>1 DEF ObjFiles, Whole, Intact, Objects!Verified
<1>4. ObjHeld'
    BY <1>1, <1>2 DEF ObjHeld, Objects!Free
<1>5. ASSUME NEW q \in Caller PROVE Works(save[q])'
    <2>1. Works(save'[q])
        BY <1>1, <1>2
    <2>2. Works(save'[q]) => Works(save[q])'
        BY DEF Works, ObjTyped, Spared, Publishes, Mirroring, Copies, CopyFits, Stored, Whole, Intact,
               Objects!Verified
    <2> QED
        BY <2>1, <2>2
<1> QED
    BY <1>3, <1>4, <1>5 DEF ObjectsSound

LEMMA IdleWorks == Works(Objects!Idle)
<1>1. Shape(Objects!Idle) /\ Objects!Idle.todo \in Seq(Item) /\ Objects!Idle.pc = "idle"
    BY DEF Objects!Idle, Shape
<1> QED
    BY <1>1 DEF Works, ObjTyped, Spared, Publishes, Mirroring, Copies, Objects!Locked

LEMMA StopStep ==
    ASSUME ObjectsSound, NEW p \in Caller, Objects!Stop(p)
    PROVE  ObjectsSound'
<1>1. Objects!Goes(p, Objects!Idle) /\ UNCHANGED <<manifest, backup, files, hurt>>
    BY DEF Objects!Stop
<1>2. Objects!Idle.pc \notin Objects!Locked
    BY DEF Objects!Idle, Objects!Locked
<1> QED
    BY <1>1, <1>2, IdleWorks, QuietStep

\* A mirror has the number and the content of its record.
LEMMA MirrorsFit ==
    ASSUME NEW t \in Seq(Item)
    PROVE  /\ Objects!MirrorsOf(t) \in Seq(Item) /\ DOMAIN Objects!MirrorsOf(t) = DOMAIN t
           /\ \A i \in DOMAIN t : /\ Objects!MirrorsOf(t)[i].n = t[i].n
                                  /\ Objects!MirrorsOf(t)[i].fixed
<1>1. \A r \in Item : [r EXCEPT !.fixed = TRUE] \in Item /\ [r EXCEPT !.fixed = TRUE].n = r.n
                      /\ [r EXCEPT !.fixed = TRUE].fixed
    BY DEF Item, Record, Archive
<1>2. \A i \in DOMAIN t : t[i] \in Item
    OBVIOUS
<1>3. Objects!MirrorsOf(t) = [i \in 1 .. Len(t) |-> [t[i] EXCEPT !.fixed = TRUE]]
    BY DEF Objects!MirrorsOf
<1> QED
    BY <1>1, <1>2, <1>3

\* What must not be touched is all that the manifest and its backup lead to, unless an archive
\* cannot be read or the backup does not parse.
LEMMA KeptSpares ==
    ASSUME ObjFiles, manifest # None, ~Objects!Unsure,
           NEW m \in {manifest, backup} \ {None}, NEW r \in Objects!Reach(m)
    PROVE  Objects!Name(r) \in Objects!Kept
<1>1. Objects!HistoryReads(m.archive)
    BY DEF Objects!Unsure
<1>2. Objects!Name(r) \in Objects!Needs(m)
    BY <1>1 DEF Objects!Needs, Objects!Reach
<1>3. m = backup => Objects!BackupParses
    BY DEF Objects!Unsure
<1> QED
    BY <1>2, <1>3 DEF Objects!Kept

\* The contents of a sequence of records.
LEMMA ShasFit ==
    ASSUME NEW t \in Seq(Record)
    PROVE  [i \in DOMAIN t |-> t[i].sha] \in Seq(Digit)
<1>1. \A i \in 1 .. Len(t) : t[i].sha \in Digit
    <2>1. \A i \in 1 .. Len(t) : t[i] \in Record
        OBVIOUS
    <2>2. \A r \in Record : r.sha \in Digit
        BY DEF Record
    <2> QED
        BY <2>1, <2>2
<1>2. [i \in DOMAIN t |-> t[i].sha] = [i \in 1 .. Len(t) |-> t[i].sha]
    OBVIOUS
<1>3. Len(t) \in Nat
    OBVIOUS
<1> QED
    BY <1>1, <1>2, <1>3

\* A call that begins or waits, by its fields.
LEMMA IdleFields ==
    /\ Objects!Idle \in [pc : {"idle"}, copy : {None}, next : {None}, todo : {<<>>}, kept : {{}},
                         unsure : {FALSE}, staged : {None}, before : {{}}]
BY DEF Objects!Idle
LEMMA LoadFields ==
    ASSUME NEW c
    PROVE  LET s == [Objects!Idle EXCEPT !.pc = "load", !.copy = c,
                    !.todo = Objects!MirrorsOf(manifest.tail), !.kept = Objects!Kept, !.unsure = Objects!Unsure] IN
           /\ s.pc = "load" /\ s.copy = c /\ s.todo = Objects!MirrorsOf(manifest.tail) /\ s.kept = Objects!Kept /\ s.unsure = Objects!Unsure
           /\ Shape(s)
<1> DEFINE s == [Objects!Idle EXCEPT !.pc = "load", !.copy = c,
                    !.todo = Objects!MirrorsOf(manifest.tail), !.kept = Objects!Kept, !.unsure = Objects!Unsure]
<1>1. s \in [pc : {"load"}, copy : {c}, next : {None}, todo : {Objects!MirrorsOf(manifest.tail)}, kept : {Objects!Kept}, unsure : {Objects!Unsure},
             staged : {None}, before : {{}}]
    BY IdleFields
<1> HIDE DEF s
<1>2. s.pc = "load" /\ s.copy = c /\ s.todo = Objects!MirrorsOf(manifest.tail) /\ s.kept = Objects!Kept /\ s.unsure = Objects!Unsure
    BY <1>1
<1>3. Shape(s)
    BY <1>1 DEF Shape
<1> QED
    BY <1>2, <1>3 DEF s
LEMMA HasFields ==
    ASSUME NEW c
    PROVE  LET s == [Objects!Idle EXCEPT !.pc = "has", !.copy = c] IN
           s.pc = "has" /\ s.copy = c /\ s.todo = <<>> /\ Shape(s)
<1> DEFINE s == [Objects!Idle EXCEPT !.pc = "has", !.copy = c]
<1>1. s \in [pc : {"has"}, copy : {c}, next : {None}, todo : {<<>>}, kept : {{}}, unsure : {FALSE},
             staged : {None}, before : {{}}]
    BY IdleFields
<1> HIDE DEF s
<1>2. s.pc = "has" /\ s.copy = c /\ s.todo = <<>>
    BY <1>1
<1>3. Shape(s)
    BY <1>1 DEF Shape
<1> QED
    BY <1>2, <1>3 DEF s
LEMMA SaveFields ==
    ASSUME NEW m
    PROVE  LET s == [Objects!Idle EXCEPT !.pc = "publish", !.next = m, !.todo = Objects!Objects(m),
                        !.kept = Objects!Kept, !.unsure = Objects!Unsure, !.before = hurt] IN
           /\ s.pc = "publish" /\ s.next = m /\ s.todo = Objects!Objects(m)
           /\ s.kept = Objects!Kept /\ s.unsure = Objects!Unsure /\ s.before = hurt /\ Shape(s)
<1> DEFINE s == [Objects!Idle EXCEPT !.pc = "publish", !.next = m, !.todo = Objects!Objects(m),
                    !.kept = Objects!Kept, !.unsure = Objects!Unsure, !.before = hurt]
<1>1. s \in [pc : {"publish"}, copy : {None}, next : {m}, todo : {Objects!Objects(m)},
             kept : {Objects!Kept}, unsure : {Objects!Unsure}, staged : {None}, before : {hurt}]
    BY IdleFields
<1> HIDE DEF s
<1>2. s.pc = "publish" /\ s.next = m /\ s.todo = Objects!Objects(m)
      /\ s.kept = Objects!Kept /\ s.unsure = Objects!Unsure /\ s.before = hurt
    BY <1>1
<1>3. Shape(s)
    BY <1>1 DEF Shape
<1> QED
    BY <1>2, <1>3 DEF s

LEMMA LoadStep ==
    ASSUME ObjectsSound, NEW p \in Caller, Objects!Load(p)
    PROVE  ObjectsSound'
<1> DEFINE shas == [i \in DOMAIN manifest.tail |-> manifest.tail[i].sha]
           copy == [revision |-> manifest.revision, archive |-> manifest.archive, tail |-> shas]
           s == [Objects!Idle EXCEPT !.pc = "load", !.copy = copy,
                    !.todo = Objects!MirrorsOf(manifest.tail), !.kept = Objects!Kept,
                    !.unsure = Objects!Unsure]
<1>1. /\ Objects!Free /\ manifest # None /\ Objects!Goes(p, s)
      /\ UNCHANGED <<manifest, backup, files, hurt>>
    BY DEF Objects!Load
<1>2. ObjFiles /\ manifest \in Saved
    BY <1>1 DEF ObjectsSound, ObjFiles
<1>3. manifest.tail \in Seq(Item) /\ manifest.tail \in Seq(Record) /\ manifest.revision \in Nat
      /\ manifest.archive \in Archive \cup {None}
    BY <1>2 DEF Saved, Item
<1>4. shas \in Seq(Digit)
    BY <1>3, ShasFit
<1>5. copy \in Copied /\ copy.revision = manifest.revision /\ copy.archive = manifest.archive
      /\ copy.tail = shas
    BY <1>3, <1>4 DEF Copied
<1>6. CopyFits(copy)
    BY <1>3, <1>5 DEF CopyFits, CopyContents, Objects!Contents
<1> HIDE DEF copy
<1>7. /\ s.pc = "load" /\ s.copy = copy /\ s.todo = Objects!MirrorsOf(manifest.tail)
      /\ s.kept = Objects!Kept /\ s.unsure = Objects!Unsure /\ Shape(s)
    BY LoadFields
<1> HIDE DEF s, shas
<1>8. s.todo \in Seq(Item) /\ \A r \in Items(s.todo) : r.fixed
    BY <1>3, <1>7, MirrorsFit DEF Items, Objects!Range
<1>9. ObjTyped(s)
    BY <1>1, <1>5, <1>7, <1>8 DEF ObjTyped
<1>10. Spared(s)
    BY <1>1, <1>2, <1>7, KeptSpares DEF Spared
<1>11. Mirroring(s) /\ Publishes(s) /\ Copies(s)
    BY <1>6, <1>7, <1>8 DEF Mirroring, Publishes, Copies
<1> QED
    BY <1>1, <1>9, <1>10, <1>11, QuietStep DEF Works

LEMMA LoadedStep ==
    ASSUME ObjectsSound, NEW p \in Caller, Objects!Loaded(p)
    PROVE  ObjectsSound'
<1> DEFINE s == [Objects!Idle EXCEPT !.pc = "has", !.copy = save[p].copy]
<1>1. /\ save[p].pc = "load" /\ Objects!Goes(p, s) /\ UNCHANGED <<manifest, backup, files, hurt>>
    BY DEF Objects!Loaded
<1>2. save[p].copy \in Copied /\ CopyFits(save[p].copy)
    BY <1>1 DEF ObjectsSound, Works, ObjTyped, Copies
<1>3. s.pc = "has" /\ s.copy = save[p].copy /\ s.todo = <<>> /\ Shape(s)
    BY HasFields
<1> HIDE DEF s
<1>4. Works(s) /\ s.pc \notin Objects!Locked
    BY <1>2, <1>3 DEF Works, ObjTyped, Spared, Publishes, Mirroring, Copies, Objects!Locked
<1> QED
    BY <1>1, <1>4, QuietStep

\* A state has the contents of its archive and of what it shows.
LEMMA CopyParts ==
    ASSUME NEW c \in Copied
    PROVE  /\ Objects!Archived(c.archive) \in Seq(Digit) /\ c.tail \in Seq(Digit)
           /\ c.revision \in Nat /\ CopyContents(c) \in Seq(Digit)
<1>1. c.archive \in Archive \cup {None} /\ c.tail \in Seq(Digit) /\ c.revision \in Nat
    BY DEF Copied
<1>2. Objects!Archived(c.archive) \in Seq(Digit)
    <2>1. CASE c.archive = None
        BY <2>1 DEF Objects!Archived
    <2>2. CASE c.archive # None
        <3>1. c.archive.sha \in Seq(Record)
            BY <1>1, <2>2 DEF Archive
        <3> QED
            BY <2>2, <3>1, ShasFit DEF Objects!Archived
    <2> QED
        BY <2>1, <2>2
<1> QED
    BY <1>1, <1>2, ConcatProperties DEF CopyContents

LEMMA HydrateStep ==
    ASSUME ObjectsSound, NEW p \in Caller, Objects!Hydrate(p)
    PROVE  ObjectsSound'
<1> DEFINE c == save[p].copy
           d == [c EXCEPT !.archive = None, !.tail = Objects!Archived(c.archive) \o @]
           s == [save[p] EXCEPT !.copy = d]
<1>1. save[p].pc = "has" /\ Objects!Goes(p, s) /\ UNCHANGED <<manifest, backup, files, hurt>>
    BY DEF Objects!Hydrate
<1>2. Works(save[p]) /\ c \in Copied /\ CopyFits(c)
    BY <1>1 DEF ObjectsSound, Works, ObjTyped, Copies
<1>3. d \in Copied /\ d.revision = c.revision /\ d.archive = None /\ d.tail = CopyContents(c)
    BY <1>2, CopyParts DEF Copied, CopyContents
<1> HIDE DEF c, d
<1>4. CopyContents(d) = CopyContents(c)
    <2>1. Objects!Archived(d.archive) = <<>>
        BY <1>3 DEF Objects!Archived
    <2>2. CopyContents(c) \in Seq(Digit)
        BY <1>2, CopyParts
    <2> QED
        BY <1>3, <2>1, <2>2, ConcatEmptySeq DEF CopyContents
<1>5. CopyFits(d)
    BY <1>2, <1>3, <1>4 DEF CopyFits
<1>6. s.pc = "has" /\ s.copy = d /\ s.todo = save[p].todo /\ Shape(s)
    BY <1>1, <1>2 DEF Works, ObjTyped, Shape
<1> HIDE DEF s
<1>7. Works(s) /\ s.pc \notin Objects!Locked
    BY <1>2, <1>3, <1>5, <1>6 DEF Works, ObjTyped, Spared, Publishes, Mirroring, Copies, Objects!Locked
<1> QED
    BY <1>1, <1>7, QuietStep

-----------------------------------------------------------------------------
(* The files of a run: what is still to be written.                        *)

LEMMA FirstItem ==
    ASSUME NEW t \in Seq(Item), t # <<>>
    PROVE  /\ Head(t) \in Item /\ Tail(t) \in Seq(Item)
           /\ Items(t) = {Head(t)} \cup Items(Tail(t))
<1>1. /\ Head(t) \in Item /\ Tail(t) \in Seq(Item) /\ Len(Tail(t)) = Len(t) - 1
      /\ \A i \in 1 .. Len(Tail(t)) : Tail(t)[i] = t[i + 1]
    BY HeadTailProperties
<1>2. Len(t) \in Nat /\ Len(t) # 0 /\ Head(t) = t[1] /\ DOMAIN t = 1 .. Len(t)
      /\ DOMAIN Tail(t) = 1 .. Len(Tail(t))
    BY <1>1
<1>3. Items(t) = {t[i] : i \in 1 .. Len(t)} /\ Items(Tail(t)) = {Tail(t)[i] : i \in 1 .. Len(t) - 1}
    BY <1>1, <1>2, RangeIs
<1>4. Items(t) \subseteq {Head(t)} \cup Items(Tail(t))
    <2> SUFFICES ASSUME NEW i \in 1 .. Len(t) PROVE t[i] \in {Head(t)} \cup Items(Tail(t))
        BY <1>3
    <2>1. CASE i = 1
        BY <1>2, <2>1
    <2>2. CASE i # 1
        <3>1. i - 1 \in 1 .. Len(t) - 1 /\ (i - 1) + 1 = i
            BY <1>2, <2>2
        <3>2. Tail(t)[i - 1] = t[i]
            BY <1>1, <3>1
        <3> QED
            BY <1>3, <3>1, <3>2
    <2> QED
        BY <2>1, <2>2
<1>5. {Head(t)} \cup Items(Tail(t)) \subseteq Items(t)
    <2>1. ASSUME NEW i \in 1 .. Len(t) - 1 PROVE Tail(t)[i] \in Items(t)
        <3>1. i + 1 \in 1 .. Len(t) /\ Tail(t)[i] = t[i + 1]
            BY <1>1, <1>2
        <3> QED
            BY <1>3, <3>1
    <2>2. Head(t) \in Items(t)
        <3>1. 1 \in 1 .. Len(t)
            BY <1>2
        <3> QED
            BY <1>2, <1>3, <3>1
    <2> QED
        BY <1>3, <2>1, <2>2
<1> QED
    BY <1>1, <1>4, <1>5

LEMMA ItemsOfBoth ==
    ASSUME NEW S, NEW s \in Seq(S), NEW t \in Seq(S)
    PROVE  s \o t \in Seq(S) /\ Items(s \o t) = Items(s) \cup Items(t)
<1>1. /\ s \o t \in Seq(S) /\ Len(s \o t) = Len(s) + Len(t)
      /\ \A i \in 1 .. Len(s) + Len(t) : (s \o t)[i] = IF i <= Len(s) THEN s[i] ELSE t[i - Len(s)]
    BY ConcatProperties
<1>2. Len(s) \in Nat /\ Len(t) \in Nat
    OBVIOUS
<1>3. /\ Items(s) = {s[i] : i \in 1 .. Len(s)} /\ Items(t) = {t[i] : i \in 1 .. Len(t)}
      /\ Items(s \o t) = {(s \o t)[i] : i \in 1 .. Len(s) + Len(t)}
    <2>1. DOMAIN s = 1 .. Len(s) /\ DOMAIN t = 1 .. Len(t) /\ DOMAIN (s \o t) = 1 .. Len(s) + Len(t)
        BY <1>1, <1>2
    <2> QED
        BY <2>1, RangeIs
<1>4. ASSUME NEW i \in 1 .. Len(s) + Len(t) PROVE (s \o t)[i] \in Items(s) \cup Items(t)
    <2>1. CASE i <= Len(s)
        BY <1>1, <1>2, <1>3, <2>1
    <2>2. CASE ~(i <= Len(s))
        <3>1. i - Len(s) \in 1 .. Len(t)
            BY <1>2, <2>2
        <3> QED
            BY <1>1, <1>3, <2>2, <3>1
    <2> QED
        BY <2>1, <2>2
<1>5. ASSUME NEW i \in 1 .. Len(s) PROVE s[i] \in Items(s \o t)
    <2>1. i \in 1 .. Len(s) + Len(t) /\ i <= Len(s)
        BY <1>2
    <2> QED
        BY <1>1, <1>3, <2>1
<1>6. ASSUME NEW i \in 1 .. Len(t) PROVE t[i] \in Items(s \o t)
    <2>1. i + Len(s) \in 1 .. Len(s) + Len(t) /\ ~(i + Len(s) <= Len(s)) /\ (i + Len(s)) - Len(s) = i
        BY <1>2
    <2>2. (s \o t)[i + Len(s)] = t[i]
        BY <1>1, <2>1
    <2> QED
        BY <1>3, <2>1, <2>2
<1> QED
    BY <1>1, <1>3, <1>4, <1>5, <1>6

\* What a save writes is all that its manifest leads to.
LEMMA ObjectsAre ==
    ASSUME NEW m \in Saved
    PROVE  Objects!Objects(m) \in Seq(Item) /\ Items(Objects!Objects(m)) = Objects!Reach(m)
<1> DEFINE last == IF m.archive = None THEN <<>> ELSE <<m.archive>>
           history == Objects!History(m)
<1>1. m.tail \in Seq(Record) /\ m.archive \in Archive \cup {None}
    BY DEF Saved
<1>2. m.tail \in Seq(Item)
    BY <1>1 DEF Item
<1>3. history \in Seq(Item)
    BY <1>1 DEF Objects!History, Archive, Item
<1>4. last \in Seq(Item) /\ Items(last) = IF m.archive = None THEN {} ELSE {m.archive}
    <2>1. CASE m.archive = None
        BY <2>1 DEF Items, Objects!Range
    <2>2. CASE m.archive # None
        <3>1. m.archive \in Item
            BY <1>1, <2>2 DEF Item
        <3>2. last = <<m.archive>> /\ <<m.archive>> \in Seq(Item)
            BY <2>2, <3>1
        <3>3. Items(<<m.archive>>) = {m.archive}
            BY DEF Items, Objects!Range
        <3> QED
            BY <2>2, <3>2, <3>3
    <2> QED
        BY <2>1, <2>2
<1>5. Objects!Objects(m) = (history \o m.tail) \o last
    BY DEF Objects!Objects
<1> HIDE DEF history, last
<1>6. history \o m.tail \in Seq(Item) /\ Items(history \o m.tail) = Items(history) \cup Items(m.tail)
    BY <1>2, <1>3, ItemsOfBoth
<1>7. /\ (history \o m.tail) \o last \in Seq(Item)
      /\ Items((history \o m.tail) \o last) = Items(history \o m.tail) \cup Items(last)
    <2>1. last \in Seq(Item) /\ history \o m.tail \in Seq(Item)
        BY <1>4, <1>6
    <2> DEFINE first == history \o m.tail
    <2>2. first \in Seq(Item)
        BY <2>1
    <2> HIDE DEF first
    <2>3. first \o last \in Seq(Item) /\ Items(first \o last) = Items(first) \cup Items(last)
        BY <2>1, <2>2, ItemsOfBoth
    <2> QED
        BY <2>3 DEF first
<1>8. Objects!Reach(m) = (Items(m.tail) \cup Items(last)) \cup Items(history)
    BY <1>4 DEF Objects!Reach, Objects!Refs, Items, history
<1> QED
    BY <1>5, <1>6, <1>7, <1>8

-----------------------------------------------------------------------------
(* The files of a run: what is saved.                                      *)

\* A change sets no attempt back and drops none.
LEMMA ChangedGrows ==
    ASSUME NEW t \in Seq(Digit), NEW n, NEW u \in Objects!Changed(t, n)
    PROVE  u \in Seq(Digit) /\ Grows(t, u)
<1>1. Digit = {1, 2} /\ Objects!Running = 1 /\ Objects!Settled = 2
    BY DEF Digit, Objects!Running, Objects!Settled
<1>2. Len(t) \in Nat /\ DOMAIN t = 1 .. Len(t) /\ \A i \in 1 .. Len(t) : t[i] \in Digit
    OBVIOUS
<1>3. \/ u = t
      \/ \E i \in DOMAIN t : u = [t EXCEPT ![i] = Objects!Settled]
      \/ u = Append(t, Objects!Running)
    BY DEF Objects!Changed
<1>4. CASE u = t
    BY <1>1, <1>2, <1>4 DEF Grows
<1>5. CASE \E i \in DOMAIN t : u = [t EXCEPT ![i] = Objects!Settled]
    <2>1. PICK i \in DOMAIN t : u = [t EXCEPT ![i] = Objects!Settled]
        BY <1>5
    <2>2. u = [j \in 1 .. Len(t) |-> IF j = i THEN 2 ELSE t[j]]
        BY <1>1, <1>2, <2>1
    <2>3. \A j \in 1 .. Len(t) : u[j] \in Digit /\ t[j] <= u[j]
        BY <1>1, <1>2, <2>2
    <2>4. u \in Seq(Digit) /\ Len(u) = Len(t)
        BY <1>2, <2>2, <2>3
    <2> QED
        BY <1>2, <2>3, <2>4 DEF Grows
<1>6. CASE u = Append(t, Objects!Running)
    <2>1. Objects!Running \in Digit
        BY DEF Digit
    <2>2. u \in Seq(Digit) /\ Len(u) = Len(t) + 1 /\ \A i \in 1 .. Len(t) : u[i] = t[i]
        BY <1>6, <2>1, AppendProperties
    <2> QED
        BY <1>1, <1>2, <2>2 DEF Grows
<1> QED
    BY <1>3, <1>4, <1>5, <1>6

LEMMA BothGrow ==
    ASSUME NEW a \in Seq(Digit), NEW t \in Seq(Digit), NEW u \in Seq(Digit), Grows(t, u)
    PROVE  a \o u \in Seq(Digit) /\ Grows(a \o t, a \o u)
<1>1. /\ a \o t \in Seq(Digit) /\ Len(a \o t) = Len(a) + Len(t)
      /\ \A i \in 1 .. Len(a) + Len(t) : (a \o t)[i] = IF i <= Len(a) THEN a[i] ELSE t[i - Len(a)]
    BY ConcatProperties
<1>2. /\ a \o u \in Seq(Digit) /\ Len(a \o u) = Len(a) + Len(u)
      /\ \A i \in 1 .. Len(a) + Len(u) : (a \o u)[i] = IF i <= Len(a) THEN a[i] ELSE u[i - Len(a)]
    BY ConcatProperties
<1>3. /\ Len(a) \in Nat /\ Len(t) \in Nat /\ Len(u) \in Nat /\ Len(t) <= Len(u)
      /\ DOMAIN t = 1 .. Len(t) /\ \A i \in 1 .. Len(t) : t[i] <= u[i]
    BY DEF Grows
<1>4. \A i \in 1 .. Len(a) : a[i] \in Int
    <2>1. Digit \subseteq Int
        BY DEF Digit, Objects!Running, Objects!Settled
    <2>2. \A i \in 1 .. Len(a) : a[i] \in Digit
        OBVIOUS
    <2> QED
        BY <2>1, <2>2
<1>5. DOMAIN (a \o t) = 1 .. Len(a) + Len(t)
    BY <1>1, <1>3
<1>6. ASSUME NEW i \in 1 .. Len(a) + Len(t) PROVE (a \o t)[i] <= (a \o u)[i]
    <2>1. i \in 1 .. Len(a) + Len(u) /\ i \in Int
        BY <1>3
    <2>2. CASE i <= Len(a)
        <3>1. i \in 1 .. Len(a)
            BY <2>1, <2>2
        <3> QED
            BY <1>1, <1>2, <1>4, <2>1, <2>2, <3>1
    <2>3. CASE ~(i <= Len(a))
        <3>1. i - Len(a) \in 1 .. Len(t)
            BY <1>3, <2>1, <2>3
        <3>2. (a \o t)[i] = t[i - Len(a)]
            BY <1>1, <2>3
        <3>3. (a \o u)[i] = u[i - Len(a)]
            BY <1>2, <2>1, <2>3
        <3> QED
            BY <1>3, <3>1, <3>2, <3>3
    <2> QED
        BY <2>2, <2>3
<1>7. Len(a) + Len(t) <= Len(a) + Len(u)
    BY <1>3
<1> QED
    BY <1>1, <1>2, <1>5, <1>6, <1>7 DEF Grows

LEMMA SaveStep ==
    ASSUME ObjectsSound, NEW p \in Caller, Objects!Save(p)
    PROVE  ObjectsSound'
<1> DEFINE c == save[p].copy
           old == Objects!Archived(c.archive)
<1>1. /\ Objects!Free /\ save[p].pc = "has" /\ manifest # None /\ manifest.revision = c.revision
      /\ UNCHANGED <<manifest, backup, files, hurt>>
      /\ \E tail \in Objects!Changed(c.tail, Len(old) + Len(c.tail)) :
            LET next == Objects!Project(c.revision + 1, old \o tail) IN
            Objects!Goes(p, [Objects!Idle EXCEPT
                !.pc = "publish", !.next = next, !.todo = Objects!Objects(next),
                !.kept = Objects!Kept, !.unsure = Objects!Unsure, !.before = hurt])
    BY DEF Objects!Save
<1>2. PICK tail \in Objects!Changed(c.tail, Len(old) + Len(c.tail)) :
            LET next == Objects!Project(c.revision + 1, old \o tail) IN
            Objects!Goes(p, [Objects!Idle EXCEPT
                !.pc = "publish", !.next = next, !.todo = Objects!Objects(next),
                !.kept = Objects!Kept, !.unsure = Objects!Unsure, !.before = hurt])
    BY <1>1
<1> DEFINE next == Objects!Project(c.revision + 1, old \o tail)
           s == [Objects!Idle EXCEPT !.pc = "publish", !.next = next, !.todo = Objects!Objects(next),
                    !.kept = Objects!Kept, !.unsure = Objects!Unsure, !.before = hurt]
<1>3. Objects!Goes(p, s)
    BY <1>2
<1>4. c \in Copied /\ CopyFits(c) /\ ObjFiles
    BY <1>1 DEF ObjectsSound, Works, ObjTyped, Copies
<1>5. /\ old \in Seq(Digit) /\ c.tail \in Seq(Digit) /\ c.revision \in Nat
      /\ old \o c.tail = Objects!Contents(manifest)
    BY <1>1, <1>4, CopyParts DEF CopyFits, CopyContents
<1>6. tail \in Seq(Digit) /\ Grows(c.tail, tail)
    BY <1>2, <1>5, ChangedGrows
<1> HIDE DEF c, old
<1>7. old \o tail \in Seq(Digit) /\ Grows(Objects!Contents(manifest), old \o tail)
    BY <1>5, <1>6, BothGrow
<1>8. next = Built(c.revision + 1, old \o tail, FALSE) /\ c.revision + 1 \in Nat
    <2>1. next = Built(c.revision + 1, old \o tail, FALSE)
        BY BuiltSo
    <2>2. c.revision + 1 \in Nat
        BY <1>5
    <2> QED
        BY <2>1, <2>2
<1>9. /\ next \in Saved /\ next.revision = c.revision + 1 /\ Numbered(next)
      /\ \A r \in Objects!Reach(next) : r.fixed = FALSE
      /\ Objects!Contents(next) = old \o tail
    <2> HIDE DEF next
    <2>1. FALSE \in BOOLEAN
        OBVIOUS
    <2> QED
        BY <1>7, <1>8, <2>1, BuiltFits
<1>10. Addressed(next)
    BY <1>9 DEF Addressed
<1> HIDE DEF next
<1>11. /\ s.pc = "publish" /\ s.next = next /\ s.todo = Objects!Objects(next)
       /\ s.kept = Objects!Kept /\ s.unsure = Objects!Unsure /\ s.before = hurt /\ Shape(s)
    BY SaveFields
<1> HIDE DEF s
<1>12. s.todo \in Seq(Item) /\ Items(s.todo) = Objects!Reach(next)
    BY <1>9, <1>11, ObjectsAre
<1>13. ObjTyped(s)
    BY <1>1, <1>10, <1>11, <1>12 DEF ObjTyped
<1>14. Spared(s)
    BY <1>1, <1>4, <1>11, KeptSpares DEF Spared
<1>15. Publishes(s) /\ Mirroring(s)
    BY <1>11, <1>12 DEF Publishes, Mirroring
<1>16. Copies(s)
    BY <1>1, <1>7, <1>9, <1>11 DEF Copies
<1> QED
    BY <1>1, <1>3, <1>13, <1>14, <1>15, <1>16, QuietStep DEF Works

-----------------------------------------------------------------------------
(* The files of a run: steps under the mirror mutex.                       *)

LEMMA PublishedStep ==
    ASSUME ObjectsSound, NEW p \in Caller, Objects!Published(p)
    PROVE  ObjectsSound'
<1> DEFINE next == save[p].next
           todo == Objects!MirrorsOf(Objects!Objects(next))
           s == [save[p] EXCEPT !.pc = "mirrors", !.todo = todo]
<1>1. /\ save[p].pc = "publish" /\ save[p].todo = <<>> /\ Objects!Goes(p, s)
      /\ UNCHANGED <<manifest, backup, files, hurt>>
    BY DEF Objects!Published
<1>2. Works(save[p])
    BY DEF ObjectsSound
<1>3. /\ Shape(save[p]) /\ manifest # None /\ Addressed(next)
    BY <1>1, <1>2 DEF Works, ObjTyped, Objects!Locked
<1>4. todo \in Seq(Item) /\ \A r \in Items(todo) : r.fixed
    <2>1. Objects!Objects(next) \in Seq(Item)
        BY <1>3, ObjectsAre DEF Addressed
    <2> DEFINE objects == Objects!Objects(next)
    <2>2. objects \in Seq(Item)
        BY <2>1
    <2> HIDE DEF objects
    <2>3. Objects!MirrorsOf(objects) \in Seq(Item)
          /\ \A r \in Items(Objects!MirrorsOf(objects)) : r.fixed
        BY <2>2, MirrorsFit DEF Items, Objects!Range
    <2> QED
        BY <2>3 DEF objects
<1> HIDE DEF todo, next
<1>5. /\ s.pc = "mirrors" /\ s.next = save[p].next /\ s.todo = todo /\ s.kept = save[p].kept
      /\ s.unsure = save[p].unsure /\ s.before = save[p].before /\ Shape(s)
    <2> DEFINE r == save[p]
    <2>1. r \in [pc : {r.pc}, copy : {r.copy}, next : {r.next}, todo : {r.todo}, kept : {r.kept},
                 unsure : {r.unsure}, staged : {r.staged}, before : {r.before}]
        BY <1>3 DEF Shape
    <2> HIDE DEF r
    <2>2. [r EXCEPT !.pc = "mirrors", !.todo = todo] \in
            [pc : {"mirrors"}, copy : {r.copy}, next : {r.next}, todo : {todo}, kept : {r.kept},
             unsure : {r.unsure}, staged : {r.staged}, before : {r.before}]
        BY <2>1
    <2>3. s = [r EXCEPT !.pc = "mirrors", !.todo = todo]
        BY DEF r
    <2> HIDE DEF s
    <2>4. s \in [pc : {"mirrors"}, copy : {r.copy}, next : {r.next}, todo : {todo}, kept : {r.kept},
                 unsure : {r.unsure}, staged : {r.staged}, before : {r.before}]
        BY <2>2, <2>3
    <2>5. /\ s.pc = "mirrors" /\ s.next = r.next /\ s.todo = todo /\ s.kept = r.kept
          /\ s.unsure = r.unsure /\ s.before = r.before
        BY <2>4
    <2>6. Shape(s)
        BY <2>4 DEF Shape
    <2> QED
        BY <2>5, <2>6 DEF r
<1> HIDE DEF s
<1>6. ObjTyped(s)
    BY <1>1, <1>3, <1>4, <1>5 DEF ObjTyped, next
<1>7. Spared(s) /\ Mirroring(s) /\ Copies(s)
    BY <1>1, <1>2, <1>4, <1>5 DEF Works, Spared, Mirroring, Copies
<1>8. Publishes(s)
    <2>1. Items(save[p].todo) = {}
        BY <1>1 DEF Items, Objects!Range
    <2> QED
        BY <1>1, <1>2, <1>5, <2>1 DEF Works, Publishes, Stored
<1>9. save[p].pc \in Objects!Locked
    BY <1>1 DEF Objects!Locked
<1> QED
    BY <1>1, <1>6, <1>7, <1>8, <1>9, QuietStep DEF Works

\* What a call knows without the mutex stays true whatever the holder of the mutex does.
LEMMA OthersWork ==
    ASSUME ObjectsSound, NEW p \in Caller, NEW q \in Caller \ {p}, save[p].pc \in Objects!Locked,
           save'[q] = save[q],
           manifest' = manifest \/ (manifest' \in Saved /\ manifest'.revision = manifest.revision + 1)
    PROVE  save[q].pc \notin Objects!Locked /\ Works(save[q])'
<1>1. /\ ObjTyped(save[q]) /\ Copies(save[q]) /\ save[q].pc \notin Objects!Locked
      /\ manifest # None /\ manifest \in Saved
    BY DEF ObjectsSound, ObjFiles, ObjHeld, Works, ObjTyped
<1>2. save[q].pc \notin {"load", "publish", "mirrors", "rotate"}
    BY <1>1 DEF Objects!Locked
<1>3. ObjTyped(save[q])'
    BY <1>1, <1>2 DEF ObjTyped, Shape
<1>4. Spared(save[q])' /\ Publishes(save[q])' /\ Mirroring(save[q])'
    BY <1>2 DEF Spared, Publishes, Mirroring
<1>5. Copies(save[q])'
    <2>1. CASE save[q].pc # "has"
        BY <1>2, <2>1 DEF Copies
    <2>2. CASE save[q].pc = "has"
        <3>1. save[q].copy \in Copied /\ CopyFits(save[q].copy)
            BY <1>1, <2>2 DEF ObjTyped, Copies
        <3>2. /\ save[q].copy.revision <= manifest.revision
              /\ save[q].copy.revision \in Nat /\ manifest.revision \in Nat
            BY <1>1, <3>1 DEF CopyFits, Copied, Saved
        <3>3. CASE manifest' = manifest
            BY <1>2, <3>1, <3>3 DEF Copies, CopyFits
        <3>4. CASE manifest' \in Saved /\ manifest'.revision = manifest.revision + 1
            <4>1. /\ save[q].copy.revision <= manifest'.revision
                  /\ save[q].copy.revision # manifest'.revision
                BY <3>2, <3>4
            <4> QED
                BY <1>2, <4>1 DEF Copies, CopyFits
        <3> QED
            BY <3>3, <3>4
    <2> QED
        BY <2>1, <2>2
<1> QED
    BY <1>1, <1>3, <1>4, <1>5 DEF Works

LEMMA LockedStep ==
    ASSUME ObjectsSound, NEW p \in Caller, NEW s, Objects!Goes(p, s), save[p].pc \in Objects!Locked,
           manifest' = manifest \/ (manifest' \in Saved /\ manifest'.revision = manifest.revision + 1),
           ObjFiles', Works(save[p])'
    PROVE  ObjectsSound'
<1>1. DOMAIN save' = Caller /\ \A q \in Caller \ {p} : save'[q] = save[q]
    BY DEF ObjectsSound, ObjHeld, Objects!Goes
<1>2. \A q \in Caller \ {p} : save'[q].pc \notin Objects!Locked /\ Works(save[q])'
    BY <1>1, OthersWork
<1>3. ObjHeld'
    BY <1>1, <1>2 DEF ObjHeld
<1> QED
    BY <1>2, <1>3 DEF ObjectsSound

-----------------------------------------------------------------------------
(* The files of a run: steps that write a file.                            *)

LEMMA AfterWrite ==
    ASSUME NEW r \in Item, Objects!Written(Objects!Name(r), r.sha)
    PROVE  /\ \A q \in Item : Objects!Name(q) # Objects!Name(r) =>
                (Objects!Verified(q) => Objects!Verified(q)') /\ (Intact(q) => Intact(q)')
           /\ \A q \in Item : Objects!Name(q) = Objects!Name(r) /\ q.sha = r.sha => Objects!Verified(q)'
<1> DEFINE name == Objects!Name(r)
<1>1. /\ files' = [x \in DOMAIN files \cup {name} |-> IF x = name THEN r.sha ELSE files[x]]
      /\ hurt' = hurt \ {name}
    BY DEF Objects!Written
<1>2. name \in DOMAIN files' /\ files'[name] = r.sha
    BY <1>1
<1>3. \A x \in DOMAIN files : x # name => x \in DOMAIN files' /\ files'[x] = files[x]
    BY <1>1
<1>4. \A x \in hurt : x # name => x \in hurt'
    BY <1>1
<1> QED
    BY <1>2, <1>3, <1>4 DEF Objects!Verified, Intact

\* The next thing of a call.
LEMMA NextItem ==
    ASSUME NEW p, Shape(save[p])
    PROVE  LET s == [save[p] EXCEPT !.todo = Tail(@)] IN
           /\ s.pc = save[p].pc /\ s.copy = save[p].copy /\ s.next = save[p].next
           /\ s.todo = Tail(save[p].todo) /\ s.kept = save[p].kept /\ s.unsure = save[p].unsure
           /\ s.staged = save[p].staged /\ s.before = save[p].before /\ Shape(s)
<1> DEFINE r == save[p]
           s == [save[p] EXCEPT !.todo = Tail(@)]
<1>1. r \in [pc : {r.pc}, copy : {r.copy}, next : {r.next}, todo : {r.todo}, kept : {r.kept},
             unsure : {r.unsure}, staged : {r.staged}, before : {r.before}]
    BY DEF Shape
<1> HIDE DEF r
<1>2. [r EXCEPT !.todo = Tail(r.todo)] \in
        [pc : {r.pc}, copy : {r.copy}, next : {r.next}, todo : {Tail(r.todo)}, kept : {r.kept},
         unsure : {r.unsure}, staged : {r.staged}, before : {r.before}]
    BY <1>1
<1>3. s = [r EXCEPT !.todo = Tail(r.todo)]
    BY DEF r
<1> HIDE DEF s
<1>4. s \in [pc : {r.pc}, copy : {r.copy}, next : {r.next}, todo : {Tail(r.todo)}, kept : {r.kept},
             unsure : {r.unsure}, staged : {r.staged}, before : {r.before}]
    BY <1>2, <1>3
<1>5. /\ s.pc = r.pc /\ s.copy = r.copy /\ s.next = r.next /\ s.todo = Tail(r.todo) /\ s.kept = r.kept
      /\ s.unsure = r.unsure /\ s.staged = r.staged /\ s.before = r.before
    BY <1>4
<1>6. Shape(s)
    BY <1>4 DEF Shape
<1> QED
    BY <1>5, <1>6 DEF r, s

\* The files of the manifest and its backup stay, when each thing that they lead to does.
LEMMA FilesLast ==
    ASSUME ObjFiles, UNCHANGED <<manifest, backup>>,
           \A m \in {manifest, backup} \ {None} : \A q \in Objects!Reach(m) : Intact(q) => Intact(q)'
    PROVE  ObjFiles'
<1>1. ASSUME manifest # None PROVE (Numbered(manifest) /\ Whole(manifest))'
    <2>1. Numbered(manifest) /\ \A q \in Objects!Reach(manifest) : Intact(q)'
        BY <1>1 DEF ObjFiles, Whole
    <2> QED
        BY <2>1 DEF Whole
<1>2. ASSUME backup # None PROVE Whole(backup)'
    <2>1. \A q \in Objects!Reach(backup) : Intact(q)'
        BY <1>2 DEF ObjFiles, Whole
    <2> QED
        BY <2>1 DEF Whole
<1> QED
    BY <1>1, <1>2 DEF ObjFiles

LEMMA PublishStep ==
    ASSUME ObjectsSound, NEW p \in Caller, Objects!Publish(p)
    PROVE  ObjectsSound'
<1>0. PICK r : r = Head(save[p].todo)
    OBVIOUS
<1> DEFINE next == save[p].next
           s == [save[p] EXCEPT !.todo = Tail(@)]
<1>1. /\ save[p].pc = "publish" /\ save[p].todo # <<>> /\ Objects!Goes(p, s)
      /\ UNCHANGED <<manifest, backup>>
      /\ \/ Objects!Verified(r) /\ UNCHANGED <<files, hurt>>
         \/ Objects!Written(Objects!Name(r), r.sha)
    BY <1>0 DEF Objects!Publish
<1>2. Works(save[p]) /\ ObjFiles /\ save[p].pc \in Objects!Locked
    BY <1>1 DEF ObjectsSound, Objects!Locked
<1>3. /\ Shape(save[p]) /\ save[p].todo \in Seq(Item) /\ manifest # None /\ Addressed(next)
    BY <1>1, <1>2 DEF Works, ObjTyped
<1>4. /\ r \in Item /\ Tail(save[p].todo) \in Seq(Item)
      /\ Items(save[p].todo) = {r} \cup Items(Tail(save[p].todo))
    BY <1>0, <1>1, <1>3, FirstItem
<1>5. /\ r \in Objects!Reach(next) /\ ~r.fixed /\ Objects!Reach(next) \subseteq Item
      /\ Items(Tail(save[p].todo)) \subseteq Objects!Reach(next)
    BY <1>1, <1>2, <1>3, <1>4, ReachItems DEF Works, Publishes, Addressed
<1>6. /\ Objects!Verified(r)'
      /\ \A q \in Item : (Objects!Verified(q) => Objects!Verified(q)') /\ (Intact(q) => Intact(q)')
    <2>1. CASE Objects!Verified(r) /\ UNCHANGED <<files, hurt>>
        BY <2>1 DEF Objects!Verified, Intact
    <2>2. CASE Objects!Written(Objects!Name(r), r.sha)
        <3>1. Objects!Verified(r)'
            BY <1>4, <2>2, AfterWrite
        <3>2. ASSUME NEW q \in Item
              PROVE  (Objects!Verified(q) => Objects!Verified(q)') /\ (Intact(q) => Intact(q)')
            <4>1. CASE Objects!Name(q) = Objects!Name(r)
                <5>1. q.sha = r.sha
                    BY <1>4, <1>5, <4>1, NamesSay
                <5>2. Objects!Verified(q)'
                    BY <1>4, <2>2, <4>1, <5>1, AfterWrite
                <5> QED
                    BY <5>2 DEF Intact
            <4>2. CASE Objects!Name(q) # Objects!Name(r)
                BY <1>4, <2>2, <4>2, AfterWrite
            <4> QED
                BY <4>1, <4>2
        <3> QED
            BY <3>1, <3>2
    <2> QED
        BY <1>1, <2>1, <2>2
<1>7. /\ s.pc = save[p].pc /\ s.copy = save[p].copy /\ s.next = save[p].next
      /\ s.todo = Tail(save[p].todo) /\ s.kept = save[p].kept /\ s.unsure = save[p].unsure
      /\ s.staged = save[p].staged /\ s.before = save[p].before /\ Shape(s)
    BY <1>3, NextItem
<1> HIDE DEF s, next
<1>8. save'[p] = s
    BY <1>1 DEF ObjectsSound, ObjHeld, Objects!Goes
<1>9. ObjFiles'
    <2>1. \A m \in {manifest, backup} \ {None} : Objects!Reach(m) \subseteq Item
        BY <1>2, ReachItems DEF ObjFiles
    <2> QED
        BY <1>1, <1>2, <1>6, <2>1, FilesLast
<1>10. ObjTyped(save[p])'
    BY <1>1, <1>3, <1>4, <1>7, <1>8 DEF ObjTyped, next
<1>11. Spared(save[p])'
    BY <1>1, <1>2, <1>7, <1>8 DEF Works, Spared
<1>12. Publishes(save[p])'
    <2>1. \A q \in Objects!Reach(next) :
            \/ q \in Items(s.todo)
            \/ Intact(q)' /\ (Objects!Name(q) \in s.before => Objects!Verified(q)')
        <3>1. ASSUME NEW q \in Objects!Reach(next), q \notin Items(s.todo)
              PROVE  Intact(q)' /\ (Objects!Name(q) \in s.before => Objects!Verified(q)')
            <4>1. CASE q = r
                BY <1>6, <4>1 DEF Intact
            <4>2. CASE q # r
                <5>1. Stored(save[p], q) /\ q \in Item
                    BY <1>1, <1>2, <1>4, <1>5, <1>7, <3>1, <4>2 DEF Works, Publishes, next
                <5> QED
                    BY <1>6, <1>7, <5>1 DEF Stored
            <4> QED
                BY <4>1, <4>2
        <3> QED
            BY <3>1
    <2>2. s.pc = "publish" /\ Items(s.todo) \subseteq Objects!Reach(next) /\ s.next = next
        BY <1>1, <1>5, <1>7 DEF next
    <2> QED
        BY <1>8, <2>1, <2>2 DEF Publishes, Stored
<1>13. Mirroring(save[p])' /\ Copies(save[p])'
    BY <1>1, <1>2, <1>7, <1>8 DEF Works, Mirroring, Copies
<1>14. Works(save[p])'
    BY <1>10, <1>11, <1>12, <1>13 DEF Works
<1> QED
    BY <1>1, <1>2, <1>9, <1>14, LockedStep

\* The mirrors of the attempts that a manifest shows differ in their numbers.
LEMMA MirrorsDiffer ==
    ASSUME NEW m \in Saved, Numbered(m), NEW q \in Items(Objects!MirrorsOf(m.tail)),
           NEW r \in Items(Objects!MirrorsOf(m.tail)), q.n = r.n
    PROVE  q = r
<1>1. m.tail \in Seq(Item)
    BY DEF Saved, Item
<1> DEFINE t == m.tail
           mirrors == Objects!MirrorsOf(t)
<1>2. /\ DOMAIN mirrors = DOMAIN t
      /\ \A i \in DOMAIN t : mirrors[i].n = t[i].n
    BY <1>1, MirrorsFit
<1>3. PICK i \in DOMAIN mirrors, j \in DOMAIN mirrors : q = mirrors[i] /\ r = mirrors[j]
    BY RangeIs
<1>4. t[i].n = t[j].n
    BY <1>2, <1>3
<1>5. i = j
    BY <1>2, <1>3, <1>4 DEF Numbered
<1> QED
    BY <1>3, <1>5

LEMMA MirrorStep ==
    ASSUME ObjectsSound, NEW p \in Caller, Objects!Mirror(p)
    PROVE  ObjectsSound'
<1>0. PICK r : r = Head(save[p].todo)
    OBVIOUS
<1> DEFINE next == save[p].next
           s == [save[p] EXCEPT !.todo = Tail(@)]
<1>1. /\ save[p].pc \in {"load", "mirrors"} /\ save[p].todo # <<>> /\ Objects!Goes(p, s)
      /\ UNCHANGED <<manifest, backup>>
      /\ \/ Objects!LeftAlone(p, r) /\ UNCHANGED <<files, hurt>>
         \/ ~Objects!LeftAlone(p, r) /\ Objects!Written(Objects!Name(r), r.sha)
    BY <1>0 DEF Objects!Mirror
<1>2. Works(save[p]) /\ ObjFiles /\ save[p].pc \in Objects!Locked
    BY <1>1 DEF ObjectsSound, Objects!Locked
<1>3. /\ Shape(save[p]) /\ save[p].todo \in Seq(Item) /\ manifest # None /\ manifest \in Saved
      /\ Numbered(manifest)
      /\ save[p].pc = "load" => save[p].copy \in Copied
      /\ save[p].pc = "mirrors" => Addressed(next)
    BY <1>1, <1>2 DEF Works, ObjTyped, ObjFiles
<1>4. /\ r \in Item /\ Tail(save[p].todo) \in Seq(Item)
      /\ Items(save[p].todo) = {r} \cup Items(Tail(save[p].todo))
    BY <1>0, <1>1, <1>3, FirstItem
<1>5. r.fixed /\ \A q \in Items(Tail(save[p].todo)) : q.fixed
    BY <1>1, <1>2, <1>4 DEF Works, Mirroring
<1>6. \A m \in {manifest, backup} \ {None} : Objects!Reach(m) \subseteq Item
    BY <1>2, ReachItems DEF ObjFiles
\* Nothing is written that the manifest or its backup leads to.
<1>7. \A m \in {manifest, backup} \ {None} : \A q \in Objects!Reach(m) : Intact(q) => Intact(q)'
    <2>1. CASE UNCHANGED <<files, hurt>>
        BY <2>1 DEF Objects!Verified, Intact
    <2>2. CASE ~Objects!LeftAlone(p, r) /\ Objects!Written(Objects!Name(r), r.sha)
        <3>1. Objects!Name(r) \notin save[p].kept /\ ~save[p].unsure
            BY <2>2 DEF Objects!LeftAlone
        <3>2. \A m \in {manifest, backup} \ {None} : \A q \in Objects!Reach(m) :
                Objects!Name(q) # Objects!Name(r)
            BY <1>1, <1>2, <3>1 DEF Works, Spared
        <3> QED
            BY <1>4, <1>6, <2>2, <3>2, AfterWrite
    <2> QED
        BY <1>1, <2>1, <2>2
\* Nothing that is saved now is written: a mirror has a fixed name.
<1>8. ASSUME save[p].pc = "mirrors", NEW q \in Objects!Reach(next)
      PROVE  Intact(q)' /\ (Objects!Name(q) \in save[p].before => Objects!Verified(q)')
    <2>1. q \in Item /\ ~q.fixed /\ Stored(save[p], q)
        BY <1>2, <1>3, <1>8, ReachItems DEF Addressed, Works, Publishes
    <2>2. CASE UNCHANGED <<files, hurt>>
        BY <2>1, <2>2 DEF Objects!Verified, Intact, Stored
    <2>3. CASE Objects!Written(Objects!Name(r), r.sha)
        <3>1. Objects!Name(q) # Objects!Name(r)
            BY <1>4, <1>5, <2>1, NamesSay
        <3> QED
            BY <1>4, <2>1, <2>3, <3>1, AfterWrite DEF Stored
    <2> QED
        BY <1>1, <2>2, <2>3
\* The mirrors that a load is past are made, and are not undone.
<1>9. ASSUME save[p].pc = "load", NEW q \in Items(Objects!MirrorsOf(manifest.tail)),
             q \notin Items(Tail(save[p].todo))
      PROVE  \/ Objects!Verified(q)' \/ Objects!Name(q) \in hurt' \cup save[p].kept \/ save[p].unsure
    <2>1. r \in Items(Objects!MirrorsOf(manifest.tail))
        BY <1>2, <1>4, <1>9 DEF Works, Mirroring
    <2>2. q \in Item
        <3>1. manifest.tail \in Seq(Item)
            BY <1>3 DEF Saved, Item
        <3>2. Objects!MirrorsOf(manifest.tail) \in Seq(Item)
            BY <3>1, MirrorsFit
        <3> QED
            BY <1>9, <3>2 DEF Items, Objects!Range
    <2>3. CASE q = r
        <3>1. CASE Objects!LeftAlone(p, r) /\ UNCHANGED <<files, hurt>>
            <4>1. \/ Objects!Name(r) \in save[p].kept \/ save[p].unsure
                  \/ Objects!Verified(r)
                BY <1>9, <3>1 DEF Objects!LeftAlone, Objects!Believed, Objects!Verified
            <4> QED
                BY <2>3, <3>1, <4>1 DEF Objects!Verified
        <3>2. CASE Objects!Written(Objects!Name(r), r.sha)
            BY <1>4, <2>3, <3>2, AfterWrite
        <3> QED
            BY <1>1, <3>1, <3>2
    <2>4. CASE q # r
        <3>1. \/ Objects!Verified(q) \/ Objects!Name(q) \in hurt \cup save[p].kept \/ save[p].unsure
            BY <1>2, <1>4, <1>9, <2>4 DEF Works, Mirroring
        <3>2. CASE UNCHANGED <<files, hurt>>
            BY <3>1, <3>2 DEF Objects!Verified
        <3>3. CASE Objects!Written(Objects!Name(r), r.sha)
            <4>1. q.n # r.n
                BY <1>3, <1>9, <2>1, <2>4, MirrorsDiffer
            <4>2. Objects!Name(q) # Objects!Name(r)
                BY <1>4, <2>2, <4>1, NamesSay
            <4>3. /\ Objects!Verified(q) => Objects!Verified(q)'
                  /\ Intact(q) => Intact(q)'
                BY <1>4, <2>2, <3>3, <4>2, AfterWrite
            <4> QED
                BY <3>1, <4>3 DEF Intact
        <3> QED
            BY <1>1, <3>2, <3>3
    <2> QED
        BY <2>3, <2>4
<1>10. /\ s.pc = save[p].pc /\ s.copy = save[p].copy /\ s.next = save[p].next
       /\ s.todo = Tail(save[p].todo) /\ s.kept = save[p].kept /\ s.unsure = save[p].unsure
       /\ s.staged = save[p].staged /\ s.before = save[p].before /\ Shape(s)
    BY <1>3, NextItem
<1> HIDE DEF s, next
<1>11. save'[p] = s
    BY <1>1 DEF ObjectsSound, ObjHeld, Objects!Goes
<1>12. ObjFiles'
    BY <1>1, <1>2, <1>7, FilesLast
<1>13. ObjTyped(save[p])'
    BY <1>1, <1>3, <1>4, <1>10, <1>11 DEF ObjTyped, next
<1>14. Spared(save[p])' /\ Copies(save[p])'
    BY <1>1, <1>2, <1>10, <1>11 DEF Works, Spared, Copies, CopyFits
<1>15. Publishes(save[p])'
    <2>1. s.pc = "mirrors" => \A q \in Objects!Reach(s.next) :
            Intact(q)' /\ (Objects!Name(q) \in s.before => Objects!Verified(q)')
        BY <1>8, <1>10 DEF next
    <2>2. s.pc \in {"load", "mirrors"}
        BY <1>1, <1>10
    <2> QED
        BY <1>11, <2>1, <2>2 DEF Publishes, Stored
<1>16. Mirroring(save[p])'
    <2>1. s.pc = "load" => Items(s.todo) \subseteq Items(Objects!MirrorsOf(manifest.tail))
        BY <1>2, <1>4, <1>10 DEF Works, Mirroring
    <2>2. s.pc = "load" => \A q \in Items(Objects!MirrorsOf(manifest.tail)) :
            \/ q \in Items(s.todo) \/ Objects!Verified(q)'
            \/ Objects!Name(q) \in hurt' \cup s.kept \/ s.unsure
        BY <1>9, <1>10
    <2>3. \A q \in Items(s.todo) : q.fixed
        BY <1>5, <1>10
    <2> QED
        BY <1>1, <1>11, <2>1, <2>2, <2>3 DEF Mirroring
<1>17. Works(save[p])'
    BY <1>13, <1>14, <1>15, <1>16 DEF Works
<1> QED
    BY <1>1, <1>2, <1>12, <1>17, LockedStep

-----------------------------------------------------------------------------
(* The files of a run: steps of the manifest.                              *)

LEMMA CommitFields ==
    ASSUME NEW p, Shape(save[p])
    PROVE  LET s == [save[p] EXCEPT !.pc = "rotate", !.staged = manifest] IN
           /\ s.pc = "rotate" /\ s.next = save[p].next /\ s.todo = save[p].todo
           /\ s.staged = manifest /\ Shape(s)
<1> DEFINE r == save[p]
           s == [save[p] EXCEPT !.pc = "rotate", !.staged = manifest]
<1>1. r \in [pc : {r.pc}, copy : {r.copy}, next : {r.next}, todo : {r.todo}, kept : {r.kept},
             unsure : {r.unsure}, staged : {r.staged}, before : {r.before}]
    BY DEF Shape
<1> HIDE DEF r
<1>2. [r EXCEPT !.pc = "rotate", !.staged = manifest] \in
        [pc : {"rotate"}, copy : {r.copy}, next : {r.next}, todo : {r.todo}, kept : {r.kept},
         unsure : {r.unsure}, staged : {manifest}, before : {r.before}]
    BY <1>1
<1>3. s = [r EXCEPT !.pc = "rotate", !.staged = manifest]
    BY DEF r
<1> HIDE DEF s
<1>4. s \in [pc : {"rotate"}, copy : {r.copy}, next : {r.next}, todo : {r.todo}, kept : {r.kept},
             unsure : {r.unsure}, staged : {manifest}, before : {r.before}]
    BY <1>2, <1>3
<1>5. s.pc = "rotate" /\ s.next = r.next /\ s.todo = r.todo /\ s.staged = manifest
    BY <1>4
<1>6. Shape(s)
    BY <1>4 DEF Shape
<1> QED
    BY <1>5, <1>6 DEF r, s

\* What is committed was written, and has what the manifest before it had.
LEMMA CommitStep ==
    ASSUME ObjectsSound, NEW p \in Caller, Objects!Commit(p)
    PROVE  ObjectsSound' /\ Objects!CommitsWhole
<1> DEFINE next == save[p].next
           s == [save[p] EXCEPT !.pc = "rotate", !.staged = manifest]
<1>1. /\ save[p].pc = "mirrors" /\ Objects!Goes(p, s) /\ manifest' = next
      /\ UNCHANGED <<backup, files, hurt>>
    BY DEF Objects!Commit
<1>2. Works(save[p]) /\ ObjFiles /\ save[p].pc \in Objects!Locked
    BY <1>1 DEF ObjectsSound, Objects!Locked
<1>3. /\ Shape(save[p]) /\ save[p].todo \in Seq(Item) /\ manifest # None /\ manifest \in Saved
      /\ next \in Saved /\ Numbered(next) /\ (\A r \in Objects!Reach(next) : ~r.fixed) /\ next # None
    BY <1>1, <1>2, ObjectFacts DEF Works, ObjTyped, ObjFiles, Addressed
<1>4. \A r \in Objects!Reach(next) : Stored(save[p], r)
    BY <1>1, <1>2 DEF Works, Publishes
<1>5. next.revision = manifest.revision + 1 /\ Grows(Objects!Contents(manifest), Objects!Contents(next))
    BY <1>1, <1>2 DEF Works, Copies
<1>6. s.pc = "rotate" /\ s.next = next /\ s.todo = save[p].todo /\ s.staged = manifest /\ Shape(s)
    BY <1>3, CommitFields
<1> HIDE DEF s, next
<1>7. save'[p] = s
    BY <1>1 DEF ObjectsSound, ObjHeld, Objects!Goes
<1>8. \A r : Intact(r) => Intact(r)'
    BY <1>1 DEF Intact, Objects!Verified
<1>9. ObjFiles'
    <2>1. \A r \in Objects!Reach(next) : Intact(r)'
        BY <1>4, <1>8 DEF Stored
    <2>2. Numbered(manifest)' /\ Whole(manifest)'
        BY <1>1, <1>3, <2>1 DEF Whole, Numbered
    <2>3. backup # None => Whole(backup)'
        <3>1. backup # None => \A r \in Objects!Reach(backup) : Intact(r)'
            BY <1>2, <1>8 DEF ObjFiles, Whole
        <3> QED
            BY <1>1, <3>1 DEF Whole
    <2> QED
        BY <1>1, <1>2, <1>3, <2>2, <2>3 DEF ObjFiles
<1>10. Works(save[p])'
    <2>1. ObjTyped(save[p])'
        BY <1>1, <1>3, <1>6, <1>7 DEF ObjTyped, Addressed
    <2>2. Spared(save[p])' /\ Mirroring(save[p])'
        BY <1>6, <1>7 DEF Spared, Mirroring
    <2>3. Publishes(save[p])'
        <3>1. \A r \in Objects!Reach(manifest) : Intact(r)'
            BY <1>2, <1>3, <1>8 DEF ObjFiles, Whole
        <3> QED
            BY <1>3, <1>6, <1>7, <3>1 DEF Publishes, Whole
    <2>4. Copies(save[p])'
        BY <1>1, <1>6, <1>7 DEF Copies
    <2> QED
        BY <2>1, <2>2, <2>3, <2>4 DEF Works
<1>11. ObjectsSound'
    BY <1>1, <1>2, <1>3, <1>5, <1>9, <1>10, LockedStep
<1>12. Objects!CommitsWhole
    <2>1. \A r \in Objects!Reach(manifest') : ~r.fixed
        BY <1>1, <1>3
    <2>2. \A r \in Objects!Reach(manifest') : Objects!Name(r) \notin save[p].before \/ Objects!Verified(r)
        BY <1>1, <1>4 DEF Stored
    <2>3. save[p].pc = "mirrors" /\ save'[p].pc = "rotate"
        BY <1>1, <1>6, <1>7
    <2>4. Grows(Objects!Contents(manifest), Objects!Contents(manifest'))
        BY <1>1, <1>5
    <2> QED
        BY <2>1, <2>2, <2>3, <2>4 DEF Objects!CommitsWhole, Grows
<1> QED
    BY <1>11, <1>12

LEMMA RotateStep ==
    ASSUME ObjectsSound, NEW p \in Caller, Objects!Rotate(p)
    PROVE  ObjectsSound'
<1> DEFINE m == save[p].next
           shas == [i \in DOMAIN m.tail |-> m.tail[i].sha]
           copy == [revision |-> m.revision, archive |-> m.archive, tail |-> shas]
           s == [Objects!Idle EXCEPT !.pc = "has", !.copy = copy]
<1>1. /\ save[p].pc = "rotate" /\ Objects!Goes(p, s) /\ backup' \in {save[p].staged, backup}
      /\ UNCHANGED <<manifest, files, hurt>>
    BY DEF Objects!Rotate
<1>2. Works(save[p]) /\ ObjFiles /\ save[p].pc \in Objects!Locked
    BY <1>1 DEF ObjectsSound, Objects!Locked
<1>3. /\ manifest # None /\ m \in Saved /\ m.revision = manifest.revision
      /\ Objects!Contents(m) = Objects!Contents(manifest)
      /\ save[p].staged \in Saved /\ Whole(save[p].staged)
    BY <1>1, <1>2 DEF Works, ObjTyped, Copies, Publishes, Addressed
<1>4. m.tail \in Seq(Record) /\ m.revision \in Nat /\ m.archive \in Archive \cup {None}
    BY <1>3 DEF Saved
<1>5. shas \in Seq(Digit)
    BY <1>4, ShasFit
<1>6. copy \in Copied /\ copy.revision = m.revision /\ copy.archive = m.archive /\ copy.tail = shas
    BY <1>4, <1>5 DEF Copied
<1>7. CopyContents(copy) = Objects!Contents(m)
    BY <1>6 DEF CopyContents, Objects!Contents
<1> HIDE DEF copy, shas, m
<1>8. /\ copy.revision <= manifest'.revision
      /\ CopyContents(copy) = Objects!Contents(manifest')
    <2>1. m.revision <= manifest.revision
        BY <1>3, <1>4
    <2> QED
        BY <1>1, <1>3, <1>6, <1>7, <2>1
<1>9. s.pc = "has" /\ s.copy = copy /\ s.todo = <<>> /\ Shape(s)
    BY HasFields
<1> HIDE DEF s
<1>10. save'[p] = s
    BY <1>1 DEF ObjectsSound, ObjHeld, Objects!Goes
<1>11. ObjFiles'
    <2>1. \A r : Intact(r) => Intact(r)'
        BY <1>1 DEF Intact, Objects!Verified
    <2>2. manifest' # None => (Numbered(manifest) /\ Whole(manifest))'
        <3>1. \A r \in Objects!Reach(manifest) : Intact(r)'
            BY <1>2, <1>3, <2>1 DEF ObjFiles, Whole
        <3> QED
            BY <1>1, <1>2, <1>3, <3>1 DEF ObjFiles, Whole
    <2>3. backup' \in Saved \cup {None} /\ (backup' # None => Whole(backup)')
        <3>1. backup' \in Saved \cup {None}
              /\ (backup' # None => \A r \in Objects!Reach(backup') : Intact(r)')
            BY <1>1, <1>2, <1>3, <2>1 DEF ObjFiles, Whole
        <3> QED
            BY <3>1 DEF Whole
    <2> QED
        BY <1>1, <1>2, <2>2, <2>3 DEF ObjFiles
<1>12. Works(save[p])'
    <2>1. ObjTyped(save[p])'
        <3>1. s.todo \in Seq(Item) /\ s.pc \notin Objects!Locked /\ s.copy \in Copied
            BY <1>6, <1>9 DEF Objects!Locked
        <3> QED
            BY <1>9, <1>10, <3>1 DEF ObjTyped
    <2>2. Spared(save[p])' /\ Mirroring(save[p])' /\ Publishes(save[p])'
        BY <1>9, <1>10 DEF Spared, Mirroring, Publishes
    <2>3. Copies(save[p])'
        BY <1>8, <1>9, <1>10 DEF Copies, CopyFits
    <2> QED
        BY <2>1, <2>2, <2>3 DEF Works
<1> QED
    BY <1>1, <1>2, <1>11, <1>12, LockedStep

LEMMA QuarantineStep ==
    ASSUME ObjectsSound, Objects!Quarantine
    PROVE  ObjectsSound'
<1>1. Objects!Free /\ manifest' = None /\ UNCHANGED <<backup, files, save, hurt>>
    BY DEF Objects!Quarantine
<1>2. ObjFiles'
    <2>1. backup # None => \A r \in Objects!Reach(backup) : Intact(r)'
        BY <1>1 DEF ObjectsSound, ObjFiles, Whole, Intact, Objects!Verified
    <2>2. backup' # None => Whole(backup)'
        BY <1>1, <2>1 DEF Whole
    <2> QED
        BY <1>1, <2>2 DEF ObjectsSound, ObjFiles
<1>3. ASSUME NEW q \in Caller PROVE Works(save[q])'
    <2>1. save[q].pc \notin {"load", "publish", "mirrors", "rotate"} /\ ObjTyped(save[q])
        BY <1>1 DEF Objects!Free, Objects!Locked, ObjectsSound, Works
    <2>2. ObjTyped(save[q])'
        BY <1>1, <2>1 DEF ObjTyped, Objects!Locked
    <2> QED
        BY <1>1, <2>1, <2>2 DEF Works, Spared, Publishes, Mirroring, Copies, CopyFits
<1> QED
    BY <1>1, <1>2, <1>3 DEF ObjectsSound, ObjHeld

-----------------------------------------------------------------------------
(* The files of a run: what happens from outside.                          *)

\* A manifest that does not parse any more leads to what it led to.
Alike(n, m) ==
    \/ n = m
    \/ /\ m \in Saved /\ n \in Saved /\ m # None /\ n # None
       /\ n.revision = m.revision /\ n.tail = m.tail /\ n.archive = m.archive
LEMMA Unparsed ==
    ASSUME NEW m \in Saved
    PROVE  ~([m EXCEPT !.ok = FALSE].ok) /\ Alike([m EXCEPT !.ok = FALSE], m)
<1> DEFINE n == [m EXCEPT !.ok = FALSE]
<1>1. n \in Saved /\ n.revision = m.revision /\ n.tail = m.tail /\ n.archive = m.archive /\ n.ok = FALSE
    BY DEF Saved
<1>2. m # None /\ n # None
    BY <1>1, ObjectFacts
<1> QED
    BY <1>1, <1>2 DEF Alike
LEMMA AlikeLeads ==
    ASSUME NEW m, NEW n, Alike(n, m)
    PROVE  /\ Objects!Reach(n) = Objects!Reach(m) /\ Objects!Contents(n) = Objects!Contents(m)
           /\ n.revision = m.revision /\ n.tail = m.tail /\ (n = None <=> m = None)
           /\ Numbered(m) => Numbered(n)
           /\ m \in Saved \cup {None} => n \in Saved \cup {None}
BY DEF Alike, Objects!Reach, Objects!Refs, Objects!History, Objects!Contents, Numbered

LEMMA DamagedStep ==
    ASSUME ObjectsSound, UNCHANGED <<files, save, hurt>>, Alike(manifest', manifest), Alike(backup', backup)
    PROVE  ObjectsSound'
<1>1. ObjFiles /\ ObjHeld /\ \A q \in Caller : Works(save[q])
    BY DEF ObjectsSound
<1>2. /\ Objects!Reach(manifest') = Objects!Reach(manifest) /\ Objects!Reach(backup') = Objects!Reach(backup)
      /\ Objects!Contents(manifest') = Objects!Contents(manifest)
      /\ manifest'.revision = manifest.revision /\ manifest'.tail = manifest.tail
      /\ (manifest' = None <=> manifest = None) /\ (backup' = None <=> backup = None)
      /\ Numbered(manifest) => Numbered(manifest')
      /\ manifest' \in Saved \cup {None} /\ backup' \in Saved \cup {None}
    <2>1. manifest \in Saved \cup {None} /\ backup \in Saved \cup {None}
        BY <1>1 DEF ObjFiles
    <2> QED
        BY <2>1, AlikeLeads
<1>3. \A r : /\ Intact(r)' <=> Intact(r)
             /\ Objects!Verified(r)' <=> Objects!Verified(r)
    BY DEF Intact, Objects!Verified
<1>4. ObjFiles'
    <2>1. manifest # None => \A r \in Objects!Reach(manifest') : Intact(r)'
        BY <1>1, <1>2, <1>3 DEF ObjFiles, Whole
    <2>2. backup # None => \A r \in Objects!Reach(backup') : Intact(r)'
        BY <1>1, <1>2, <1>3 DEF ObjFiles, Whole
    <2>3. manifest' # None => Numbered(manifest')
        BY <1>1, <1>2 DEF ObjFiles
    <2> QED
        BY <1>2, <2>1, <2>2, <2>3 DEF ObjFiles, Whole, Numbered
<1>5. ASSUME NEW q \in Caller PROVE Works(save[q])'
    <2>1. save'[q] = save[q] /\ ObjTyped(save[q]) /\ Spared(save[q]) /\ Publishes(save[q])
          /\ Mirroring(save[q]) /\ Copies(save[q])
        BY <1>1 DEF Works
    <2>2. ObjTyped(save[q])'
        BY <1>2, <2>1 DEF ObjTyped
    <2>3. Spared(save[q])'
        <3>1. ASSUME save[q].pc \in {"load", "publish", "mirrors"}, ~save[q].unsure,
                     NEW m \in {manifest', backup'} \ {None}, NEW r \in Objects!Reach(m)
              PROVE  Objects!Name(r) \in save[q].kept
            BY <1>2, <2>1, <3>1 DEF Spared
        <3> QED
            BY <2>1, <3>1 DEF Spared
    <2>4. Publishes(save[q])'
        <3>1. \A m : Whole(m) => \A r \in Objects!Reach(m) : Intact(r)'
            BY <1>3 DEF Whole
        <3> QED
            BY <1>3, <2>1, <3>1 DEF Publishes, Stored, Whole
    <2>5. Mirroring(save[q])'
        BY <1>2, <1>3, <2>1 DEF Mirroring
    <2>6. Copies(save[q])'
        BY <1>2, <2>1 DEF Copies, CopyFits
    <2> QED
        BY <2>2, <2>3, <2>4, <2>5, <2>6 DEF Works
<1> QED
    BY <1>1, <1>4, <1>5 DEF ObjectsSound, ObjHeld

LEMMA HarmFields ==
    ASSUME NEW q, NEW x, Shape(save[q])
    PROVE  LET s == [save[q] EXCEPT !.before = @ \ {x}] IN
           /\ s.pc = save[q].pc /\ s.copy = save[q].copy /\ s.next = save[q].next
           /\ s.todo = save[q].todo /\ s.kept = save[q].kept /\ s.unsure = save[q].unsure
           /\ s.staged = save[q].staged /\ s.before = save[q].before \ {x} /\ Shape(s)
<1> DEFINE r == save[q]
           s == [save[q] EXCEPT !.before = @ \ {x}]
<1>1. r \in [pc : {r.pc}, copy : {r.copy}, next : {r.next}, todo : {r.todo}, kept : {r.kept},
             unsure : {r.unsure}, staged : {r.staged}, before : {r.before}]
    BY DEF Shape
<1> HIDE DEF r
<1>2. [r EXCEPT !.before = r.before \ {x}] \in
        [pc : {r.pc}, copy : {r.copy}, next : {r.next}, todo : {r.todo}, kept : {r.kept},
         unsure : {r.unsure}, staged : {r.staged}, before : {r.before \ {x}}]
    BY <1>1
<1>3. s = [r EXCEPT !.before = r.before \ {x}]
    BY DEF r
<1> HIDE DEF s
<1>4. s \in [pc : {r.pc}, copy : {r.copy}, next : {r.next}, todo : {r.todo}, kept : {r.kept},
             unsure : {r.unsure}, staged : {r.staged}, before : {r.before \ {x}}]
    BY <1>2, <1>3
<1>5. /\ s.pc = r.pc /\ s.copy = r.copy /\ s.next = r.next /\ s.todo = r.todo /\ s.kept = r.kept
      /\ s.unsure = r.unsure /\ s.staged = r.staged /\ s.before = r.before \ {x}
    BY <1>4
<1>6. Shape(s)
    BY <1>4 DEF Shape
<1> QED
    BY <1>5, <1>6 DEF r, s

LEMMA HarmFileStep ==
    ASSUME ObjectsSound, NEW x \in DOMAIN files, hurt' = hurt \cup {x},
           files' \in {[files EXCEPT ![x] = Bad], Objects!Restrict(files, DOMAIN files \ {x})},
           save' = [p \in Caller |-> [save[p] EXCEPT !.before = @ \ {x}]],
           UNCHANGED <<manifest, backup>>
    PROVE  ObjectsSound' /\ \A q \in Caller : save'[q].pc = save[q].pc
<1>1. ObjFiles /\ ObjHeld /\ \A q \in Caller : Works(save[q])
    BY DEF ObjectsSound
<1>2. \A y \in DOMAIN files : y # x => y \in DOMAIN files' /\ files'[y] = files[y]
    BY DEF Objects!Restrict
<1>3. \A r : /\ Intact(r) => Intact(r)'
             /\ Objects!Verified(r) /\ Objects!Name(r) # x => Objects!Verified(r)'
    BY <1>2 DEF Intact, Objects!Verified
<1>4. ObjFiles'
    BY <1>1, <1>3, FilesLast
<1>5. ASSUME NEW q \in Caller
      PROVE  /\ save'[q].pc = save[q].pc /\ save'[q].copy = save[q].copy /\ save'[q].next = save[q].next
             /\ save'[q].todo = save[q].todo /\ save'[q].kept = save[q].kept
             /\ save'[q].unsure = save[q].unsure /\ save'[q].staged = save[q].staged
             /\ save'[q].before = save[q].before \ {x} /\ Shape(save'[q])
    <2>1. save'[q] = [save[q] EXCEPT !.before = @ \ {x}]
        OBVIOUS
    <2>2. Shape(save[q])
        BY <1>1 DEF Works, ObjTyped
    <2> QED
        BY <2>1, <2>2, HarmFields
<1>6. ASSUME NEW q \in Caller PROVE Works(save[q])'
    <2>1. ObjTyped(save[q]) /\ Spared(save[q]) /\ Publishes(save[q]) /\ Mirroring(save[q]) /\ Copies(save[q])
        BY <1>1 DEF Works
    <2>2. ObjTyped(save[q])' /\ Spared(save[q])' /\ Copies(save[q])'
        BY <1>5, <2>1 DEF ObjTyped, Spared, Copies, CopyFits
    <2>3. Publishes(save[q])'
        <3>1. \A r : Stored(save[q], r) => Intact(r)' /\ (Objects!Name(r) \in save'[q].before => Objects!Verified(r)')
            BY <1>3, <1>5 DEF Stored
        <3>2. \A m : Whole(m) => \A r \in Objects!Reach(m) : Intact(r)'
            BY <1>3 DEF Whole
        <3> QED
            BY <1>5, <2>1, <3>1, <3>2 DEF Publishes, Stored, Whole
    <2>4. Mirroring(save[q])'
        <3>1. \A r : Objects!Verified(r) => Objects!Verified(r)' \/ Objects!Name(r) \in hurt'
            BY <1>3
        <3> QED
            BY <1>5, <2>1, <3>1 DEF Mirroring
    <2> QED
        BY <2>2, <2>3, <2>4 DEF Works
<1>7. ObjHeld'
    BY <1>1, <1>5 DEF ObjHeld
<1> QED
    BY <1>4, <1>5, <1>6, <1>7 DEF ObjectsSound

LEMMA HarmStep ==
    ASSUME ObjectsSound, Objects!Harm
    PROVE  /\ ObjectsSound' /\ \A q \in Caller : save'[q].pc = save[q].pc
           /\ manifest' = manifest \/ ~manifest'.ok
<1>1. ObjFiles
    BY DEF ObjectsSound
<1>2. \/ \E x \in DOMAIN files :
            /\ hurt' = hurt \cup {x}
            /\ files' \in {[files EXCEPT ![x] = Bad], Objects!Restrict(files, DOMAIN files \ {x})}
            /\ save' = [q \in Caller |-> [save[q] EXCEPT !.before = @ \ {x}]]
            /\ UNCHANGED <<manifest, backup>>
      \/ /\ backup # None /\ backup' = [backup EXCEPT !.ok = FALSE]
         /\ UNCHANGED <<manifest, files, save, hurt>>
      \/ /\ manifest # None /\ manifest' = [manifest EXCEPT !.ok = FALSE]
         /\ UNCHANGED <<backup, files, save, hurt>>
    BY DEF Objects!Harm
<1>3. CASE \E x \in DOMAIN files :
            /\ hurt' = hurt \cup {x}
            /\ files' \in {[files EXCEPT ![x] = Bad], Objects!Restrict(files, DOMAIN files \ {x})}
            /\ save' = [q \in Caller |-> [save[q] EXCEPT !.before = @ \ {x}]]
            /\ UNCHANGED <<manifest, backup>>
    <2>1. PICK x \in DOMAIN files :
            /\ hurt' = hurt \cup {x}
            /\ files' \in {[files EXCEPT ![x] = Bad], Objects!Restrict(files, DOMAIN files \ {x})}
            /\ save' = [q \in Caller |-> [save[q] EXCEPT !.before = @ \ {x}]]
            /\ UNCHANGED <<manifest, backup>>
        BY <1>3
    <2>2. ObjectsSound' /\ \A q \in Caller : save'[q].pc = save[q].pc
        BY <2>1, HarmFileStep
    <2> QED
        BY <2>1, <2>2
<1>4. CASE /\ backup # None /\ backup' = [backup EXCEPT !.ok = FALSE]
           /\ UNCHANGED <<manifest, files, save, hurt>>
    <2>1. backup \in Saved
        BY <1>1, <1>4 DEF ObjFiles
    <2>2. Alike(manifest', manifest) /\ Alike(backup', backup)
        BY <1>4, <2>1, Unparsed DEF Alike
    <2> QED
        BY <1>4, <2>2, DamagedStep
<1>5. CASE /\ manifest # None /\ manifest' = [manifest EXCEPT !.ok = FALSE]
           /\ UNCHANGED <<backup, files, save, hurt>>
    <2>1. manifest \in Saved
        BY <1>1, <1>5 DEF ObjFiles
    <2>2. Alike(manifest', manifest) /\ Alike(backup', backup) /\ ~manifest'.ok
        BY <1>5, <2>1, Unparsed DEF Alike
    <2> QED
        BY <1>5, <2>2, DamagedStep
<1> QED
    BY <1>2, <1>3, <1>4, <1>5

-----------------------------------------------------------------------------
(* The files of a run: the theorem.                                        *)

\* A run is created, or left by an earlier version: then all its references are to fixed names,
\* and its backup leads to the same files.
LEMMA ObjectsBegin ==
    ASSUME Objects!Init
    PROVE  ObjectsSound
<1>1. save = [p \in Caller |-> Objects!Idle]
    BY DEF Objects!Init
<1>2. ObjHeld
    BY <1>1 DEF ObjHeld, Objects!Idle, Objects!Locked
<1>3. \A p \in Caller : Works(save[p])
    BY <1>1, IdleWorks
<1>4. \/ manifest = Objects!Created /\ backup = None
      \/ \E contents \in {<<Objects!Running>>, <<Objects!Settled, Objects!Running>>} :
            LET old == Objects!Legacy(2, contents) IN
            /\ manifest = old /\ backup \in {None, Objects!Legacy(1, contents)}
            /\ files = [x \in {Objects!Name(r) : r \in Objects!Reach(old)} |->
                            (CHOOSE r \in Objects!Reach(old) : Objects!Name(r) = x).sha]
    BY DEF Objects!Init
<1>5. CASE manifest = Objects!Created /\ backup = None
    <2>1. manifest \in Saved /\ manifest.tail = <<>> /\ manifest.archive = None
        BY <1>5 DEF Objects!Created, Objects!Manifest, Saved
    <2>2. Numbered(manifest) /\ Objects!Reach(manifest) = {}
        BY <2>1 DEF Numbered, Objects!Reach, Objects!Refs, Objects!History, Objects!Range
    <2>3. Whole(manifest)
        BY <2>2 DEF Whole
    <2> QED
        BY <1>2, <1>3, <1>5, <2>1, <2>2, <2>3 DEF ObjFiles, ObjectsSound
<1>6. CASE \E contents \in {<<Objects!Running>>, <<Objects!Settled, Objects!Running>>} :
            LET old == Objects!Legacy(2, contents) IN
            /\ manifest = old /\ backup \in {None, Objects!Legacy(1, contents)}
            /\ files = [x \in {Objects!Name(r) : r \in Objects!Reach(old)} |->
                            (CHOOSE r \in Objects!Reach(old) : Objects!Name(r) = x).sha]
    <2>1. PICK contents \in {<<Objects!Running>>, <<Objects!Settled, Objects!Running>>} :
            LET old == Objects!Legacy(2, contents) IN
            /\ manifest = old /\ backup \in {None, Objects!Legacy(1, contents)}
            /\ files = [x \in {Objects!Name(r) : r \in Objects!Reach(old)} |->
                            (CHOOSE r \in Objects!Reach(old) : Objects!Name(r) = x).sha]
        BY <1>6
    <2>2. contents \in Seq(Digit)
        <3>1. Objects!Running \in Digit /\ Objects!Settled \in Digit
            BY DEF Digit
        <3>2. <<Objects!Running>> \in Seq(Digit) /\ <<Objects!Settled, Objects!Running>> \in Seq(Digit)
            BY <3>1
        <3> QED
            BY <3>2
    <2> DEFINE old == Objects!Legacy(2, contents)
               older == Objects!Legacy(1, contents)
    <2>3. /\ manifest = old /\ backup \in {None, older}
          /\ files = [x \in {Objects!Name(r) : r \in Objects!Reach(old)} |->
                            (CHOOSE r \in Objects!Reach(old) : Objects!Name(r) = x).sha]
        BY <2>1
    <2>3a. old = Built(2, contents, TRUE) /\ older = Built(1, contents, TRUE)
        BY BuiltSo
    <2> HIDE DEF old, older
    <2>4. /\ old \in Saved /\ Numbered(old) /\ older \in Saved
          /\ \A r, q \in Objects!Reach(old) : r.n = q.n => r = q
        <3>1. 1 \in Nat /\ 2 \in Nat /\ TRUE \in BOOLEAN
            OBVIOUS
        <3>2. /\ old \in Saved /\ Numbered(old)
              /\ \A r, q \in Objects!Reach(old) : r.n = q.n => r = q
            BY <2>2, <3>1, BuiltFits, <2>3a
        <3>3. older \in Saved
            BY <2>2, <3>1, BuiltFits, <2>3a
        <3> QED
            BY <3>2, <3>3
    <2>5. older.tail = old.tail /\ older.archive = old.archive
        BY <2>3a DEF Built, Objects!Manifest
    <2>6. Objects!Reach(older) = Objects!Reach(old)
        BY <2>5 DEF Objects!Reach, Objects!Refs, Objects!History
    <2>7. ASSUME NEW r \in Objects!Reach(old) PROVE Objects!Verified(r)
        <3> DEFINE q == CHOOSE q \in Objects!Reach(old) : Objects!Name(q) = Objects!Name(r)
        <3>1. q \in Objects!Reach(old) /\ Objects!Name(q) = Objects!Name(r)
            OBVIOUS
        <3>2. Objects!Name(r) \in DOMAIN files /\ files[Objects!Name(r)] = q.sha
            BY <2>3
        <3> HIDE DEF q
        <3>3. q = r
            BY <2>4, <2>7, <3>1, ReachItems, NamesSay
        <3> QED
            BY <3>2, <3>3 DEF Objects!Verified
    <2>8. Whole(old) /\ Whole(older)
        BY <2>6, <2>7 DEF Whole, Intact
    <2> QED
        BY <1>2, <1>3, <2>3, <2>4, <2>8 DEF ObjFiles, ObjectsSound
<1> QED
    BY <1>4, <1>5, <1>6

LEMMA ObjectsSteps ==
    ASSUME ObjectsSound, Objects!Next
    PROVE  ObjectsSound' /\ Objects!CommitsWhole
<1>1. ASSUME UNCHANGED manifest \/ manifest' = None \/ ~manifest'.ok PROVE Objects!CommitsWhole
    BY <1>1 DEF Objects!CommitsWhole
<1>2. CASE Objects!Quarantine
    BY <1>1, <1>2, QuarantineStep DEF Objects!Quarantine
<1>3. CASE Objects!Harm
    BY <1>1, <1>3, HarmStep
<1>4. ASSUME NEW p \in Caller, Objects!Load(p) PROVE ObjectsSound' /\ Objects!CommitsWhole
    BY <1>1, <1>4, LoadStep DEF Objects!Load
<1>5. ASSUME NEW p \in Caller, Objects!Loaded(p) PROVE ObjectsSound' /\ Objects!CommitsWhole
    BY <1>1, <1>5, LoadedStep DEF Objects!Loaded
<1>6. ASSUME NEW p \in Caller, Objects!Hydrate(p) PROVE ObjectsSound' /\ Objects!CommitsWhole
    BY <1>1, <1>6, HydrateStep DEF Objects!Hydrate
<1>7. ASSUME NEW p \in Caller, Objects!Save(p) PROVE ObjectsSound' /\ Objects!CommitsWhole
    BY <1>1, <1>7, SaveStep DEF Objects!Save
<1>8. ASSUME NEW p \in Caller, Objects!Publish(p) PROVE ObjectsSound' /\ Objects!CommitsWhole
    BY <1>1, <1>8, PublishStep DEF Objects!Publish
<1>9. ASSUME NEW p \in Caller, Objects!Published(p) PROVE ObjectsSound' /\ Objects!CommitsWhole
    BY <1>1, <1>9, PublishedStep DEF Objects!Published
<1>10. ASSUME NEW p \in Caller, Objects!Mirror(p) PROVE ObjectsSound' /\ Objects!CommitsWhole
    BY <1>1, <1>10, MirrorStep DEF Objects!Mirror
<1>11. ASSUME NEW p \in Caller, Objects!Commit(p) PROVE ObjectsSound' /\ Objects!CommitsWhole
    BY <1>11, CommitStep
<1>12. ASSUME NEW p \in Caller, Objects!Rotate(p) PROVE ObjectsSound' /\ Objects!CommitsWhole
    BY <1>1, <1>12, RotateStep DEF Objects!Rotate
<1>13. ASSUME NEW p \in Caller, Objects!Stop(p) PROVE ObjectsSound' /\ Objects!CommitsWhole
    BY <1>1, <1>13, StopStep DEF Objects!Stop
<1> QED
    BY <1>2, <1>3, <1>4, <1>5, <1>6, <1>7, <1>8, <1>9, <1>10, <1>11, <1>12, <1>13 DEF Objects!Next

\* A load is past all its mirrors when it returns.
LEMMA LoadsRepair ==
    ASSUME ObjectsSound, Objects!Next
    PROVE  Objects!MirrorsRepaired
<1> SUFFICES ASSUME NEW p \in Caller, save[p].pc = "load", save'[p].pc = "has"
             PROVE  \A r \in Items(Objects!MirrorsOf(manifest.tail)) :
                        \/ Objects!Verified(r) \/ Objects!Name(r) \in hurt \cup save[p].kept
                        \/ save[p].unsure
    BY DEF Objects!MirrorsRepaired, Items
<1>1. Works(save[p]) /\ DOMAIN save = Caller
    BY DEF ObjectsSound, ObjHeld
<1>2. \A q \in Caller \ {p} : \A s : ~Objects!Goes(q, s)
    BY <1>1 DEF Objects!Goes
<1>3. ~Objects!Quarantine
    BY DEF Objects!Quarantine
<1>4. ~Objects!Harm
    BY HarmStep
<1>5. ASSUME NEW q \in Caller, q # p
      PROVE  ~(\/ Objects!Load(q) \/ Objects!Loaded(q) \/ Objects!Hydrate(q) \/ Objects!Save(q)
               \/ Objects!Publish(q) \/ Objects!Published(q) \/ Objects!Mirror(q) \/ Objects!Commit(q)
               \/ Objects!Rotate(q) \/ Objects!Stop(q))
    BY <1>2, <1>5 DEF Objects!Load, Objects!Loaded, Objects!Hydrate, Objects!Save, Objects!Publish,
        Objects!Published, Objects!Mirror, Objects!Commit, Objects!Rotate, Objects!Stop
<1>6. /\ ~Objects!Load(p) /\ ~Objects!Hydrate(p) /\ ~Objects!Save(p) /\ ~Objects!Publish(p)
      /\ ~Objects!Published(p) /\ ~Objects!Commit(p) /\ ~Objects!Rotate(p)
    BY DEF Objects!Load, Objects!Hydrate, Objects!Save, Objects!Publish, Objects!Published,
        Objects!Commit, Objects!Rotate
<1>7. ~Objects!Stop(p)
    BY <1>1 DEF Objects!Stop, Objects!Goes, Objects!Idle
<1>8. ~Objects!Mirror(p)
    <2> SUFFICES ASSUME Objects!Mirror(p) PROVE FALSE
        OBVIOUS
    <2> DEFINE s == [save[p] EXCEPT !.todo = Tail(@)]
    <2>1. Objects!Goes(p, s)
        BY DEF Objects!Mirror
    <2>2. s.pc = save[p].pc
        BY <1>1, NextItem DEF Works, ObjTyped
    <2> HIDE DEF s
    <2> QED
        BY <1>1, <2>1, <2>2 DEF Objects!Goes
<1>9. Objects!Loaded(p)
    BY <1>3, <1>4, <1>5, <1>6, <1>7, <1>8 DEF Objects!Next
<1>10. Items(save[p].todo) = {}
    BY <1>9 DEF Objects!Loaded, Items, Objects!Range
<1> QED
    BY <1>1, <1>10 DEF Works, Mirroring

\* README.md:111 and :117, for any number of processes, attempts and records shown, whatever stops
\* where and whatever is damaged from outside: all that the manifest of a run or its backup leads
\* to is what it was when it was referred to, unless it was damaged since; a new manifest leads to
\* content-addressed files only, none of which was damaged before its save and not rewritten, and
\* forgets or sets back no attempt; and a load repairs the mirrors of the attempts that it shows
\* (persistRunInternal, writeReferencedEntries, writeDerivedFiles, loadRunForOwner).
THEOREM ObjectsAreTrue == Spec => ObjectsTrue
<1> DEFINE ObjectsInvariant == by = "objects" => ObjectsSound
           Promise == Objects!RecoveryWhole' /\ Objects!CommitsWhole /\ Objects!MirrorsRepaired
<1>1. Init => ObjectsInvariant
    BY ObjectsBegin DEF Init
<1>2. ASSUME ObjectsInvariant, by = "objects", Objects!Next, UNCHANGED by
      PROVE  ObjectsInvariant' /\ Promise
    <2>1. ObjectsSound' /\ Objects!CommitsWhole /\ Objects!MirrorsRepaired
        BY <1>2, ObjectsSteps, LoadsRepair
    <2>2. ObjectsSound' => Objects!RecoveryWhole'
        BY DEF ObjectsSound, ObjFiles, Whole, Intact, Objects!RecoveryWhole
    <2> QED
        BY <2>1, <2>2
<1>3. ASSUME ObjectsInvariant, UNCHANGED objectVars, UNCHANGED by
      PROVE  ObjectsInvariant'
    BY <1>3 DEF objectVars, ObjectsSound, ObjFiles, ObjHeld, Works, ObjTyped, Spared, Publishes, Mirroring,
        Copies, CopyFits, Stored, Whole, Intact, Objects!Verified
<1>4. ObjectsInvariant /\ [Next]_vars => ObjectsInvariant'
    <2> SUFFICES ASSUME ObjectsInvariant, [Next]_vars PROVE ObjectsInvariant'
        OBVIOUS
    <2>1. CASE by = "objects" /\ Objects!Next /\ UNCHANGED by
        BY <1>2, <2>1
    <2>2. CASE by # "objects" /\ UNCHANGED by
        BY <2>2
    <2>3. CASE UNCHANGED vars
        BY <1>3, <2>3 DEF vars
    <2> QED
        BY <2>1, <2>2, <2>3 DEF Next
<1>5. ObjectsInvariant /\ [Next]_vars => [by = "objects" => Promise]_vars
    <2> SUFFICES ASSUME ObjectsInvariant, Next, by = "objects" PROVE Promise
        OBVIOUS
    <2>1. Objects!Next /\ UNCHANGED by
        BY DEF Next
    <2> QED
        BY <1>2, <2>1
<1> QED
    BY <1>1, <1>4, <1>5, PTL DEF Spec, ObjectsTrue
=============================================================================

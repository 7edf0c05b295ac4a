--------------------------- MODULE RunProjections ---------------------------
(***************************************************************************)
(* What stands beside the manifest of a saved run: the files it refers to  *)
(* (RunObjects), the index of a session's runs (OwnerIndex), the cards the *)
(* host shows of a run (RunCards) and the terminal's views of runs         *)
(* (LiveView).  They share no state and no step, and a behaviour is of one *)
(* of them; a save, of which RunStore has the steps, is one step for the   *)
(* last three.                                                             *)
(***************************************************************************)
EXTENDS Naturals, Sequences, FiniteSets

CONSTANTS
    Session, Run, None,
    Plugin, Server, Parent, Owned, Attempts, MaxSaves, MaxFails, \* OwnerIndex
    Fixed, Bad, Inline, MaxRecords, MaxRevision, MaxHarms,       \* RunObjects
    Caller, Attempt, MaxCards, MaxRefusals,                    \* RunCards
    Failed, Owner, MaxAttempts, MaxOpens, MaxMoves             \* LiveView

\* None is no session and no memo; the index is of finitely many runs.
ASSUME OwnerAssumption ==
    /\ None \notin Parent
    /\ None \notin [run : Owned, status : BOOLEAN, stamp : Nat]
    /\ IsFiniteSet(Owned)
\* None is no archive and no manifest; a fixed name is no digest of a record or of an archive.
ASSUME ObjectAssumption ==
    LET Record == [n : Nat, sha : {1, 2}, fixed : BOOLEAN]
        Archive == [n : {0}, sha : Seq(Record), fixed : BOOLEAN]
    IN /\ None \notin Archive
       /\ None \notin [revision : Nat, tail : Seq(Record), archive : Archive \cup {None}, ok : BOOLEAN]
       /\ Fixed \notin {1, 2} \cup Seq(Record)
       /\ Inline \in Nat

VARIABLES
    by,
    manifest, backup, files, save, hurt, harms,
    run, index, local, untold, saves, fails,
    attempt, call, chain, sidecar, host, lost, refusals,
    route, saved, readable, known, view, ctl, op, dialog, browse, torn, opened, moves

objectVars == <<manifest, backup, files, save, hurt, harms>>
ownerVars == <<run, index, local, untold, saves, fails>>
cardVars == <<attempt, call, chain, sidecar, host, lost, refusals>>
viewVars == <<route, saved, readable, known, view, ctl, op, dialog, browse, torn, opened, moves>>
vars == <<by, objectVars, ownerVars, cardVars, viewVars>>

Objects == INSTANCE RunObjects WITH Process <- Caller, MaxAttempts <- MaxRecords, call <- save
Owners == INSTANCE OwnerIndex WITH Process <- Plugin, Session <- Parent, Run <- Owned
Cards == INSTANCE RunCards WITH MaxFaults <- MaxRefusals, faults <- refusals
Live == INSTANCE LiveView WITH index <- readable

NoObjects ==
    /\ manifest = None /\ backup = None /\ files = None
    /\ save = None /\ hurt = None /\ harms = None
NoOwners ==
    /\ run = None /\ index = None /\ local = None
    /\ untold = None /\ saves = None /\ fails = None
NoCards ==
    /\ attempt = None /\ call = None /\ chain = None /\ sidecar = None
    /\ host = None /\ lost = None /\ refusals = None
NoLive ==
    /\ route = None /\ saved = None /\ readable = None /\ known = None /\ view = None /\ ctl = None
    /\ op = None /\ dialog = None /\ browse = None /\ torn = None /\ opened = None /\ moves = None

Init ==
    \/ by = "objects" /\ Objects!Init /\ NoOwners /\ NoCards /\ NoLive
    \/ by = "owners" /\ NoObjects /\ Owners!Init /\ NoCards /\ NoLive
    \/ by = "cards" /\ NoObjects /\ NoOwners /\ Cards!Init /\ NoLive
    \/ by = "live" /\ NoObjects /\ NoOwners /\ NoCards /\ Live!Init
Next ==
    \/ by = "objects" /\ Objects!Next /\ UNCHANGED <<by, ownerVars, cardVars, viewVars>>
    \/ by = "owners" /\ Owners!Next /\ UNCHANGED <<by, objectVars, cardVars, viewVars>>
    \/ by = "cards" /\ Cards!Next /\ UNCHANGED <<by, objectVars, ownerVars, viewVars>>
    \/ by = "live" /\ Live!Next /\ UNCHANGED <<by, objectVars, ownerVars, cardVars>>
Spec == Init /\ [][Next]_vars

-----------------------------------------------------------------------------
\* Every file that progress.json or its backup leads to stays whole; a commit leads to whole
\* content-addressed files and forgets no attempt; a load repairs the mirrors (persistRunInternal,
\* writeDerivedFiles, loadRunForOwner).
ObjectsTrue == [][by = "objects" =>
    Objects!RecoveryWhole' /\ Objects!CommitsWhole /\ Objects!MirrorsRepaired]_vars
\* The index of a session, and what is cached from it, miss no run that they were told of
\* (refreshOwnerRunIndex, findLatestIncompleteRunForTurn).
OwnersTrue == by = "owners" => Owners!IndexTrue /\ Owners!CandidatesTrue
\* The host's cards follow the saved attempts and end with them (createRunCardProjector).
CardsTrue == [][by = "cards" => Cards!CardsClosed' /\ Cards!CardsFollow]_vars
\* What the terminal shows is of the selected session and is kept up; it goes only to recorded
\* attempts of the session (LiveRunController, navigateValidatedAttempt).
LiveTrue == [][by = "live" => Live!DisplayIsOwners' /\ Live!Refreshes' /\ Live!NavigationTrue]_vars
=============================================================================

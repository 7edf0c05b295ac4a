------------------------------ MODULE RunObjects ------------------------------
(***************************************************************************)
(* The files of one run that progress.json refers to (src/store.ts,        *)
(* src/persistence.ts): the complete record of each attempt of a node, and *)
(* the archive of the attempts that progress.json does not show.  New ones *)
(* are content-addressed and never written twice.  Beside them are mirrors *)
(* under fixed names, which earlier versions referred to from progress.json.*)
(*                                                                         *)
(* A record has the number of its attempt, an archive has 0; the content   *)
(* of an archive are the references it has, and a digest is the content.   *)
(* Loads and saves hold the mirror mutex (RunStore has its steps), and a   *)
(* dead holder is replaced.  Each action is a file operation.              *)
(***************************************************************************)
EXTENDS Naturals, Sequences, FiniteSets, Functions

CONSTANTS
    Process, None,
    Fixed,        \* the fixed name of a record or archive
    Bad,          \* the content of a damaged file
    Inline,       \* attempts that progress.json shows
    MaxAttempts, MaxRevision, MaxHarms   \* bounds

VARIABLES
    manifest,  \* progress.json
    backup,    \* progress.json.bak
    files,     \* content by name
    call,      \* what each process is doing
    hurt,      \* ghost: names of files damaged from outside (before: before a save and not since)
    harms

vars == <<manifest, backup, files, call, hurt, harms>>

Ref(n, sha, fixed) == [n |-> n, sha |-> sha, fixed |-> fixed]
Name(r) == <<r.n, IF r.fixed THEN Fixed ELSE r.sha>>
Manifest(revision, tail, archive) ==
    [revision |-> revision, tail |-> tail, archive |-> archive, ok |-> TRUE]
History(m) == IF m.archive = None THEN <<>> ELSE m.archive.sha
Archived(archive) == IF archive = None THEN <<>> ELSE [i \in DOMAIN archive.sha |-> archive.sha[i].sha]
Contents(m) == Archived(m.archive) \o [i \in DOMAIN m.tail |-> m.tail[i].sha]

\* A record changes once: its attempt runs, then it is settled.
Running == 1
Settled == 2

Idle == [pc |-> "idle", copy |-> None, next |-> None, todo |-> <<>>, kept |-> {},
         unsure |-> FALSE, staged |-> None, before |-> {}]
Locked == {"load", "publish", "mirrors", "rotate"}
Free == \A p \in Process : call[p].pc \notin Locked

\* createRun: no attempts, nothing referred to.
Created == Manifest(1, <<>>, None)
\* What an earlier version has left: every reference is to a fixed name.
Legacy(revision, contents) ==
    LET refs == [i \in DOMAIN contents |-> Ref(i, contents[i], TRUE)]
        cut == IF Len(refs) > Inline THEN Len(refs) - Inline ELSE 0
    IN Manifest(revision, SubSeq(refs, cut + 1, Len(refs)),
                IF cut = 0 THEN None ELSE Ref(0, SubSeq(refs, 1, cut), TRUE))

-----------------------------------------------------------------------------
(* What is referred to, and reading it.                                    *)

Refs(m) == Range(m.tail) \cup (IF m.archive = None THEN {} ELSE {m.archive})
Reach(m) == Refs(m) \cup Range(History(m))
Verified(r) == Name(r) \in DOMAIN files /\ files[Name(r)] = r.sha

HistoryReads(archive) == archive # None => Verified(archive)
RecordReads(r) == Verified(r)
VisibleReads(m) == \A r \in Range(m.tail) : RecordReads(r)
ArchivedReads(archive) ==
    HistoryReads(archive) /\ (archive # None => \A r \in Range(archive.sha) : RecordReads(r))
\* readAuthoritativeRun, after the manifest has been parsed.
Reads(m) == VisibleReads(m) /\ ArchivedReads(m.archive)

Init ==
    /\ \/ manifest = Created /\ backup = None /\ files = <<>>
       \/ \E contents \in {<<Running>>, <<Settled, Running>>} :
             LET old == Legacy(2, contents) IN
             /\ manifest = old /\ backup \in {None, Legacy(1, contents)}
             /\ files = [x \in {Name(r) : r \in Reach(old)} |->
                            (CHOOSE r \in Reach(old) : Name(r) = x).sha]
    /\ call = [p \in Process |-> Idle]
    /\ hurt = {} /\ harms = 0

-----------------------------------------------------------------------------
(* What no write may touch.                                                *)

\* The names that a manifest needs; the records of an archive that cannot be read are unknown.
Needs(m) == {Name(r) : r \in Refs(m) \cup (IF HistoryReads(m.archive) THEN Range(History(m)) ELSE {})}
BackupParses == backup # None /\ backup.ok
\* Mutant: what the backup needs is not looked up.
KeptForCurrent == Needs(manifest)
Kept == Needs(manifest) \cup (IF BackupParses THEN Needs(backup) ELSE {})
Unsure ==
    \/ backup # None /\ ~(BackupParses /\ HistoryReads(backup.archive))
    \/ ~HistoryReads(manifest.archive)

\* projectRunState: what the manifest of these records is.
Project(revision, contents) ==
    LET refs == [i \in DOMAIN contents |-> Ref(i, contents[i], FALSE)]
        cut == IF Len(refs) > Inline THEN Len(refs) - Inline ELSE 0
    IN Manifest(revision, SubSeq(refs, cut + 1, Len(refs)),
                IF cut = 0 THEN None ELSE Ref(0, SubSeq(refs, 1, cut), FALSE))
\* expectedDerived: the objects of a manifest, children before their archive, and the mirrors of
\* the records that are in memory.
Objects(m) == History(m) \o m.tail \o (IF m.archive = None THEN <<>> ELSE <<m.archive>>)
MirrorsOf(refs) == [i \in DOMAIN refs |-> [refs[i] EXCEPT !.fixed = TRUE]]

Written(name, content) ==
    /\ files' = [x \in DOMAIN files \cup {name} |-> IF x = name THEN content ELSE files[x]]
    /\ hurt' = hurt \ {name}
Goes(p, state) == call' = [call EXCEPT ![p] = state]

-----------------------------------------------------------------------------
(* Loads.                                                                  *)

\* A manifest that does not parse is renamed away.
Quarantine ==
    /\ Free /\ manifest # None /\ ~manifest.ok /\ manifest' = None
    /\ UNCHANGED <<backup, files, call, hurt, harms>>

\* The run is read whole under the mirror mutex; then its mirrors are brought up to date.
Load(p) ==
    /\ Free /\ call[p].pc = "idle"
    /\ manifest # None /\ manifest.ok /\ Reads(manifest)
    /\ Goes(p, [Idle EXCEPT
            !.pc = "load",
            !.copy = [revision |-> manifest.revision, archive |-> manifest.archive,
                      tail |-> [i \in DOMAIN manifest.tail |-> manifest.tail[i].sha]],
            !.todo = MirrorsOf(manifest.tail), !.kept = Kept, !.unsure = Unsure])
    /\ UNCHANGED <<manifest, backup, files, hurt, harms>>

\* hydrateRunForExecution, without the mutex: the archive of the loaded run is read into memory.
Hydrate(p) ==
    LET c == call[p].copy IN
    /\ call[p].pc = "has" /\ c.archive # None /\ ArchivedReads(c.archive)
    /\ Goes(p, [call[p] EXCEPT !.copy = [c EXCEPT !.archive = None, !.tail = Archived(c.archive) \o @]])
    /\ UNCHANGED <<manifest, backup, files, hurt, harms>>

-----------------------------------------------------------------------------
(* Saves.                                                                  *)

\* The executor settles its last attempt or begins another; a transfer changes no attempt.
Changed(tail, all) ==
    {tail}
    \cup {[tail EXCEPT ![i] = Settled] : i \in DOMAIN tail}
    \cup IF all < MaxAttempts /\ \A i \in DOMAIN tail : tail[i] = Settled THEN {Append(tail, Running)} ELSE {}

\* persistRunInternal: the revision is compared, the archive is read into the state that is saved,
\* and what it will refer to and what it must not touch is settled before anything is written.
Save(p) ==
    LET c == call[p].copy
        old == Archived(c.archive)
    IN
    /\ Free /\ call[p].pc = "has" /\ c.revision < MaxRevision
    /\ manifest # None /\ manifest.ok /\ manifest.revision = c.revision
    /\ ArchivedReads(c.archive)
    /\ \E tail \in Changed(c.tail, Len(old) + Len(c.tail)) :
          LET next == Project(c.revision + 1, old \o tail) IN
          Goes(p, [Idle EXCEPT !.pc = "publish", !.next = next, !.todo = Objects(next),
                               !.kept = Kept, !.unsure = Unsure, !.before = hurt])
    /\ UNCHANGED <<manifest, backup, files, hurt, harms>>

\* writeReferencedEntries: an object that exists is verified and never repaired.
Publish(p) ==
    LET r == Head(call[p].todo) IN
    /\ call[p].pc = "publish" /\ call[p].todo # <<>>
    /\ IF Name(r) \in DOMAIN files THEN Verified(r) /\ UNCHANGED <<files, hurt>> ELSE Written(Name(r), r.sha)
    /\ Goes(p, [call[p] EXCEPT !.todo = Tail(@)])
    /\ UNCHANGED <<manifest, backup, harms>>
\* The mirrors of every attempt, and of the archive.
Published(p) ==
    /\ call[p].pc = "publish" /\ call[p].todo = <<>>
    /\ Goes(p, [call[p] EXCEPT !.pc = "mirrors", !.todo = MirrorsOf(Objects(call[p].next))])
    /\ UNCHANGED <<manifest, backup, files, hurt, harms>>

\* A save takes a mirror to be what the manifest before it had; a load looks at the file.
Believed(p, r) == call[p].pc = "mirrors" /\ \E old \in Refs(manifest) : old.n = r.n /\ old.sha = r.sha
LeftAlone(p, r) ==
    \/ Name(r) \in call[p].kept \/ call[p].unsure
    \/ Name(r) \in DOMAIN files /\ (Believed(p, r) \/ files[Name(r)] = r.sha)
Mirror(p) ==
    LET r == Head(call[p].todo) IN
    /\ call[p].pc \in {"load", "mirrors"} /\ call[p].todo # <<>>
    /\ IF LeftAlone(p, r) THEN UNCHANGED <<files, hurt>> ELSE Written(Name(r), r.sha)
    /\ Goes(p, [call[p] EXCEPT !.todo = Tail(@)])
    /\ UNCHANGED <<manifest, backup, harms>>
Loaded(p) ==
    /\ call[p].pc = "load" /\ call[p].todo = <<>>
    /\ Goes(p, [Idle EXCEPT !.pc = "has", !.copy = call[p].copy])
    /\ UNCHANGED <<manifest, backup, files, hurt, harms>>

\* The current manifest is copied aside and replaced.
Commit(p) ==
    /\ call[p].pc = "mirrors" /\ call[p].todo = <<>>
    /\ manifest' = call[p].next
    /\ Goes(p, [call[p] EXCEPT !.pc = "rotate", !.staged = manifest])
    /\ UNCHANGED <<backup, files, hurt, harms>>
\* The copy becomes the backup, or the old backup stays; no file is collected.  The caller goes
\* on with the state that was committed, its archive behind a reference.
Rotate(p) ==
    LET m == call[p].next IN
    /\ call[p].pc = "rotate" /\ backup' \in {call[p].staged, backup}
    /\ Goes(p, [Idle EXCEPT !.pc = "has", !.copy =
            [revision |-> m.revision, archive |-> m.archive,
             tail |-> [i \in DOMAIN m.tail |-> m.tail[i].sha]]])
    /\ UNCHANGED <<manifest, files, hurt, harms>>

\* The call ends, is refused, fails to write or to verify a file, or its process dies.
Stop(p) ==
    /\ call[p].pc # "idle" /\ Goes(p, Idle)
    /\ UNCHANGED <<manifest, backup, files, hurt, harms>>

\* A file is damaged or removed from outside.
Harm ==
    /\ harms < MaxHarms /\ harms' = harms + 1
    /\ \/ \E x \in DOMAIN files :
             /\ hurt' = hurt \cup {x}
             /\ files' \in {[files EXCEPT ![x] = Bad], Restrict(files, DOMAIN files \ {x})}
             /\ call' = [p \in Process |-> [call[p] EXCEPT !.before = @ \ {x}]]
             /\ UNCHANGED <<manifest, backup>>
       \/ /\ backup # None /\ backup' = [backup EXCEPT !.ok = FALSE]
          /\ UNCHANGED <<manifest, files, call, hurt>>
       \/ /\ manifest # None /\ manifest' = [manifest EXCEPT !.ok = FALSE]
          /\ UNCHANGED <<backup, files, call, hurt>>

Next ==
    \/ Quarantine \/ Harm
    \/ \E p \in Process :
          \/ Load(p) \/ Loaded(p) \/ Hydrate(p) \/ Save(p) \/ Publish(p) \/ Published(p)
          \/ Mirror(p) \/ Commit(p) \/ Rotate(p) \/ Stop(p)
Spec == Init /\ [][Next]_vars

-----------------------------------------------------------------------------
\* README.md:111, "failure before that replacement leaves current progress and every sidecar
\* reachable from it byte-identical", "paths still reachable from a legacy current/backup manifest
\* are never reused as mirrors": whatever stops where, every file that the manifest or its backup
\* leads to (also a backup that does not parse any more) is what it was when it was referred to.
RecoveryWhole ==
    \A m \in {manifest, backup} \ {None} : \A r \in Reach(m) : Verified(r) \/ Name(r) \in hurt
\* README.md:117, "only then advances progress": a new manifest leads to content-addressed files
\* only, none of which was damaged before the save began, and to every attempt the old one had.
CommitsWhole ==
    manifest' # manifest /\ manifest' # None /\ manifest'.ok =>
        /\ \A r \in Reach(manifest') : ~r.fixed
        /\ \E p \in Process :
              /\ call[p].pc = "mirrors" /\ call'[p].pc = "rotate"
              /\ \A r \in Reach(manifest') : Name(r) \notin call[p].before \/ Verified(r)
        /\ LET old == Contents(manifest)
               new == Contents(manifest')
           IN Len(old) <= Len(new) /\ \A i \in DOMAIN old : old[i] <= new[i]
\* README.md:111, "partial mirror writes are repaired from progress on a later load": when a load
\* returns, the mirrors of the attempts it shows are what the manifest says, or are left alone.
MirrorsRepaired ==
    \A p \in Process : call[p].pc = "load" /\ call'[p].pc = "has" =>
        \A r \in Range(MirrorsOf(manifest.tail)) :
            \/ Verified(r) \/ Name(r) \in hurt \cup call[p].kept \/ call[p].unsure
=============================================================================

--------------------------- MODULE SkillPromotion ---------------------------
(***************************************************************************)
(* Publication of approved skill candidates into the user's skill files    *)
(* (skill-evolution-store.ts): promotion, rollback, review and recovery,   *)
(* each under the store's mutation lock, over one target file.  A          *)
(* transaction writes a journal, then moves hard links one call at a time; *)
(* a process may die or a call may throw between any two, the user edits   *)
(* the target at any moment, and recovery decides from hashes and inodes.  *)
(***************************************************************************)
EXTENDS Integers, Sequences, FiniteSets

CONSTANTS
    Worker,         \* processes with the plugin loaded
    Candidate,      \* skill candidates that name the target
    Basis,          \* Basis[c]: the text c replaces, Absent when it creates
    Proposal,       \* Proposal[c]: the text c publishes
    Absent, Torn,   \* no file; a file whose writer stopped half way
    Original,       \* the texts the target may have at first
    UserText,       \* what the user saves over the target
    MaxCalls, MaxFaults, MaxEdits   \* bounds: tool calls, faults, edits

Tx == 1 .. MaxCalls      \* a call makes one transaction at most
Text == Original \cup UserText \cup {Proposal[c] : c \in Candidate} \cup {Torn}

VARIABLES
    file,       \* file[n]: what the name n leads to; hard links share an inode
    journals,   \* the transaction journals on disk
    record,     \* the candidate index
    holder,     \* the process in the mutation lock, or None
    worker,     \* what each process is doing
    spent,      \* calls, transactions, faults and edits so far
    owed,       \* history: texts of the user's that must stay reachable
    trouble,    \* history: what recovery has had to cope with beyond a stop
    published   \* history: the text the last committed revision put in place
disk == <<file, journals, record>>
history == <<owed, trouble, published>>
vars == <<disk, holder, worker, spent, history>>

None == "none"
Target == <<0, "target">>
Name == {Target} \cup Tx \X {"swap", "prepared", "backup"}
Inode == 1 .. (3 * MaxCalls + 2)
NoFile == [ino |-> 0, text |-> Absent]
File == [ino : Inode, text : Text] \cup {NoFile}
Unused == CHOOSE i \in Inode : \A n \in Name : file[n].ino # i
New(t) == [ino |-> Unused, text |-> t]
Swap(j) == <<j.id, "swap">>
Prepared(j) == <<j.id, "prepared">>
Backup(j) == <<j.backup, "backup">>
Before(j) == IF j.before = Absent THEN NoFile ELSE [ino |-> j.ino, text |-> j.before]

NoJournal == [id |-> 0, whole |-> FALSE, op |-> None, cand |-> None, rev |-> 0,
              before |-> Absent, ino |-> 0, after |-> Absent, backup |-> 0]
Idle == [op |-> None, cand |-> None, stage |-> "idle", todo |-> <<>>,
         left |-> {}, bad |-> FALSE, j |-> NoJournal, rev |-> 0]

Init ==
    /\ \E t \in Original : file = [n \in Name |-> IF n = Target /\ t # Absent
                                       THEN [ino |-> 1, text |-> t] ELSE NoFile]
    /\ journals = {}
    /\ record = [c \in Candidate |-> [state |-> "validated", rev |-> 1, backup |-> 0]]
    /\ holder = None
    /\ worker = [w \in Worker |-> Idle]
    /\ spent = [calls |-> 0, tx |-> 0, faults |-> 0, edits |-> 0]
    /\ owed = {file[Target].text} \ {Absent}
    /\ trouble = {}
    /\ published = file[Target].text

---------------------------------------------------------------------------
\* Recovery: what one journal is found to mean.
Undone(j) == IF j.op = "promote" THEN "validated" ELSE "promoted"
Done(j) == IF j.op = "promote" THEN "promoted" ELSE "rolled_back"

\* The journal names the candidate's current revision, or the one it made.
Bound(j) ==
    LET r == record[j.cand] IN
    \/ j.rev = r.rev /\ r.state = Undone(j)
    \/ j.rev + 1 = r.rev /\ r.state = Done(j)

\* The independent copy of the text a promotion replaces or a rollback restores.
BackupHolds(j) ==
    /\ j.backup # 0
    /\ file[Backup(j)].text = (IF j.op = "promote" THEN j.before ELSE j.after)
    /\ file[Backup(j)].ino # j.ino

ThirdState(j) ==
    \/ file[Swap(j)] \notin {NoFile, Before(j)}
    \/ file[Prepared(j)].text \notin {Absent, j.after}
    \/ file[Target].text = j.before /\ file[Target] # Before(j)

Verdict(j) ==
    IF ~j.whole \/ ~Bound(j) \/ ThirdState(j) THEN "unresolved"
    ELSE IF file[Target] = NoFile /\ file[Swap(j)] # NoFile THEN "restore"
    ELSE IF file[Target] = Before(j) THEN "clean"
    ELSE IF file[Target].text # j.after THEN "unresolved"
    ELSE IF record[j.cand].rev # j.rev THEN "committed"
    ELSE IF j.before # Absent /\ ~BackupHolds(j) THEN "unresolved"
    ELSE "apply"

\* A journal of a file that is not back yet is forgotten.
Forgets(j) == IF Verdict(j) = "unresolved" THEN <<>> ELSE <<"swap", "prepared", "forget">>
Fixes(j) ==
    CASE Verdict(j) = "restore" -> <<"relink", "swap", "prepared", "backup", "forget">>
      [] Verdict(j) = "clean" -> <<"swap", "prepared", "backup", "forget">>
      [] Verdict(j) = "apply" -> <<"commit", "swap", "prepared", "forget">>
      [] Verdict(j) = "committed" -> <<"swap", "prepared", "forget">>
      [] OTHER -> <<>>

---------------------------------------------------------------------------
\* One call on the file system or the store, of a transaction or of recovery.
AtBackup == <<"check", "open backup", "write backup", "check">>
Unlinked == <<"check", "unlink">>           \* without the second link
AtTarget == <<"claim", "check", "unlink">>
Script(j) ==
    <<"open journal", "write journal">>
      \o (IF j.op = "promote" /\ j.before # Absent THEN AtBackup ELSE <<>>)
      \o (IF j.op = "rollback" THEN <<"check">> ELSE <<>>)
      \o <<"open prepared", "write prepared">>
      \o (IF j.before # Absent THEN AtTarget ELSE <<>>)
      \o <<"publish", "prepared", "swap", "commit", "forget">>

\* removeVerifiedFile: what no longer has the expected bytes stays.
At(s, j) == IF s = "backup" THEN Backup(j) ELSE <<j.id, s>>
Removes(s, j) ==
    \/ s \in {"swap", "prepared"}
    \/ s = "backup" /\ j.op = "promote" /\ j.backup # 0 /\ record[j.cand].rev = j.rev
AsExpected(s, j) ==
    LET f == file[At(s, j)] IN
    \/ f = NoFile
    \/ s = "swap" /\ f = Before(j)
    \/ s = "prepared" /\ f.text = j.after
    \/ s = "backup" /\ f.text = j.before

\* The names after the call: a call that throws may have taken effect first.
Effect(s, j) ==
    CASE s = "open backup" -> [file EXCEPT ![Backup(j)] = New(Torn)]
      [] s = "write backup" -> [file EXCEPT ![Backup(j)].text = j.before]
      [] s = "open prepared" -> [file EXCEPT ![Prepared(j)] = New(Torn)]
      [] s = "write prepared" -> [file EXCEPT ![Prepared(j)].text = j.after]
      [] s = "claim" -> [file EXCEPT ![Swap(j)] = file[Target]]
      [] s = "unlink" -> [file EXCEPT ![Target] = NoFile]
      [] s = "publish" -> IF file[Target] = NoFile
                             THEN [file EXCEPT ![Target] = file[Prepared(j)]] ELSE file
      [] s = "relink" -> IF file[Target] = NoFile
                            THEN [file EXCEPT ![Target] = file[Swap(j)]] ELSE file
      [] Removes(s, j) /\ AsExpected(s, j) -> [file EXCEPT ![At(s, j)] = NoFile]
      [] OTHER -> file

Succeeds(s, j) ==
    CASE s \in {"check", "claim"} -> file[Target] = Before(j)
      [] s = "unlink" -> file[Target] # NoFile
      [] s \in {"publish", "relink"} -> file[Target] = NoFile
      [] Removes(s, j) -> AsExpected(s, j)
      [] OTHER -> TRUE

---------------------------------------------------------------------------
Holding(w) == holder = w
Doing(w, stage) == worker[w].stage = stage
Becomes(w, new) == worker' = [worker EXCEPT ![w] = new]
Spend(what) == spent' = [spent EXCEPT ![what] = @ + 1]

\* A tool is called; every one of them first recovers.
Call(w, op, c) ==
    /\ Doing(w, "idle") /\ spent.calls < MaxCalls
    /\ Becomes(w, [Idle EXCEPT !.op = op, !.cand = c, !.stage = "recover"])
    /\ Spend("calls")
    /\ UNCHANGED <<disk, holder, history>>

\* The plugin starts.
Start(w) ==
    /\ Doing(w, "idle")
    /\ Becomes(w, [Idle EXCEPT !.op = "recover", !.stage = "recover"])
    /\ UNCHANGED <<disk, holder, spent, history>>

\* recoverSkillTransactions takes the lock and scans the transaction directory.
BeginRecovery(w) ==
    /\ Doing(w, "recover") /\ holder = None
    /\ holder' = w
    /\ Becomes(w, [worker[w] EXCEPT !.stage = "recovering", !.bad = FALSE,
                                    !.left = {j.id : j \in journals}])
    /\ UNCHANGED <<disk, spent, history>>

\* The next journal is read and judged, all of it before anything is moved.
Decide(w) ==
    /\ Doing(w, "recovering") /\ worker[w].todo = <<>> /\ worker[w].left # {}
    /\ LET id == CHOOSE i \in worker[w].left : \A k \in worker[w].left : i <= k
           j == CHOOSE x \in journals : x.id = id
       IN Becomes(w, [worker[w] EXCEPT !.left = @ \ {id}, !.j = j, !.todo = Fixes(j),
                                       !.bad = @ \/ Verdict(j) = "unresolved"])
    /\ UNCHANGED <<disk, holder, spent, history>>

\* One unresolved journal refuses the call; a call to recover ends here.
EndRecovery(w) ==
    /\ Doing(w, "recovering") /\ worker[w].todo = <<>> /\ worker[w].left = {}
    /\ holder' = None
    /\ Becomes(w, IF worker[w].bad \/ worker[w].op = "recover" THEN Idle
                  ELSE [worker[w] EXCEPT !.stage = "begin", !.j = NoJournal,
                                         !.rev = record[worker[w].cand].rev])
    /\ UNCHANGED <<disk, spent, history>>

\* Taking the lock again, after recovery let it go: contention starts the whole
\* call over (awaitSkillEvolutionLock).
Contended(w) ==
    /\ Doing(w, "begin") /\ holder # None
    /\ Becomes(w, [worker[w] EXCEPT !.stage = "recover"])
    /\ UNCHANGED <<disk, holder, spent, history>>

Promotable(c) == record[c].state = "validated" /\ file[Target].text = Basis[c]
Revertible(c) ==
    /\ record[c].state = "promoted" /\ record[c].backup # 0
    /\ file[Target].text = Proposal[c]
    /\ file[<<record[c].backup, "backup">>].text = Basis[c]
Refuse(w) ==
    LET c == worker[w].cand IN
    /\ Doing(w, "begin") /\ holder = None
    /\ \/ worker[w].op = "promote" /\ ~Promotable(c)
       \/ worker[w].op = "rollback" /\ ~Revertible(c)
    /\ Becomes(w, Idle)
    /\ UNCHANGED <<disk, holder, spent, history>>

\* The checks under the lock, and the journal that is about to be written.
Journal(op, c) ==
    [id |-> spent.tx + 1, whole |-> TRUE, op |-> op, cand |-> c, rev |-> record[c].rev,
     before |-> file[Target].text, ino |-> file[Target].ino,
     after |-> IF op = "promote" THEN Proposal[c] ELSE Basis[c],
     backup |-> IF op = "rollback" THEN record[c].backup
                ELSE IF Basis[c] = Absent THEN 0 ELSE spent.tx + 1]
Overlap == IF journals = {} THEN {} ELSE {"overlap"}
\* One transaction a call, so that the bound on calls is one on transactions.
Begin(w) ==
    LET c == worker[w].cand
        j == Journal(worker[w].op, c)
    IN
    /\ Doing(w, "begin") /\ holder = None /\ spent.tx < MaxCalls
    /\ \/ worker[w].op = "promote" /\ Promotable(c)
       \/ worker[w].op = "rollback" /\ Revertible(c)
    /\ holder' = w
    /\ Becomes(w, [worker[w] EXCEPT !.stage = "running", !.j = j, !.todo = Script(j)])
    /\ trouble' = trouble \cup Overlap
    /\ Spend("tx")
    /\ UNCHANGED <<disk, owed, published>>

---------------------------------------------------------------------------
\* What the call does to the journals, the index and what they are judged by.
Others(j) == {x \in journals : x.id # j.id}
Journals(s, j) ==
    CASE s = "open journal" -> journals \cup {[j EXCEPT !.whole = FALSE]}
      [] s = "write journal" -> Others(j) \cup {j}
      [] s = "forget" -> Others(j)
      [] OTHER -> journals

\* appendSkillCandidateRevisionLocked: a compare-and-swap on the revision.
Records(s, j) ==
    IF s # "commit" THEN record
    ELSE [record EXCEPT ![j.cand] = [state |-> Done(j), rev |-> @.rev + 1, backup |-> j.backup]]

Step(w) ==
    /\ worker[w].todo # <<>>
    /\ LET s == Head(worker[w].todo)
           j == worker[w].j
       IN /\ Succeeds(s, j)
          /\ file' = Effect(s, j)
          /\ journals' = Journals(s, j)
          /\ record' = Records(s, j)
          /\ published' = IF s = "commit" THEN j.after ELSE published
    /\ Becomes(w, [worker[w] EXCEPT !.todo = Tail(@)])
    /\ UNCHANGED <<holder, spent, owed, trouble>>

\* A check or a call fails.  A transaction tidies its prepared file and leaves
\* its journal; recovery reports the journal and goes on with the next.
Tidied(f, j) ==
    IF f[Prepared(j)].text = j.after THEN [f EXCEPT ![Prepared(j)] = NoFile] ELSE f
Abandoned(w, f) ==
    IF Doing(w, "running")
    THEN /\ file' = Tidied(f, worker[w].j)
         /\ holder' = None
         /\ Becomes(w, Idle)
    ELSE /\ file' = f
         /\ holder' = holder
         /\ Becomes(w, [worker[w] EXCEPT !.todo = <<>>, !.bad = TRUE])
Fail(w) ==
    /\ worker[w].todo # <<>>
    /\ ~Succeeds(Head(worker[w].todo), worker[w].j)
    /\ Abandoned(w, Effect(Head(worker[w].todo), worker[w].j))
    /\ UNCHANGED <<journals, record, spent, history>>

Half == {"write journal", "write backup", "write prepared"}
Tear(w) == IF worker[w].todo # <<>> /\ Head(worker[w].todo) \in Half THEN {"torn"} ELSE {}
\* A call of the operating system fails with nothing changed.
Throw(w) ==
    /\ worker[w].todo # <<>> /\ spent.faults < MaxFaults
    /\ Abandoned(w, file)
    /\ trouble' = trouble \cup Tear(w)
    /\ Spend("faults")
    /\ UNCHANGED <<journals, record, owed, published>>

Finish(w) ==
    /\ Doing(w, "running") /\ worker[w].todo = <<>>
    /\ holder' = None
    /\ Becomes(w, Idle)
    /\ UNCHANGED <<disk, spent, history>>

\* alg_skill_evolution_review reads the candidate after recovery and appends
\* its revision under the lock only if the revision is still the one it read.
Reviewed(state) == IF state = "validated" THEN "rejected" ELSE "validated"
Review(w) ==
    LET c == worker[w].cand IN
    /\ Doing(w, "begin") /\ holder = None /\ worker[w].op = "review"
    /\ IF record[c].rev = worker[w].rev /\ record[c].state \in {"validated", "rejected"}
       THEN /\ record' = [record EXCEPT ![c].state = Reviewed(@), ![c].rev = @ + 1]
            /\ trouble' = trouble \cup Overlap
       ELSE UNCHANGED <<record, trouble>>
    /\ Becomes(w, Idle)
    /\ UNCHANGED <<file, journals, holder, spent, owed, published>>

\* The process dies; the next to want the lock replaces its dead holder.
Die(w) ==
    /\ ~Doing(w, "idle") /\ spent.faults < MaxFaults
    /\ holder' = IF Holding(w) THEN None ELSE holder
    /\ Becomes(w, Idle)
    /\ trouble' = trouble \cup Tear(w)
    /\ Spend("faults")
    /\ UNCHANGED <<disk, owed, published>>

---------------------------------------------------------------------------
\* Between the last check and the unlink nothing protects a file that was put in
\* the place of the one that was found: the window the manual admits.
Exposed ==
    \E w \in Worker :
        /\ worker[w].todo # <<>> /\ Head(worker[w].todo) = "unlink"
        /\ file'[Target].ino # worker[w].j.ino
Saved(t) == IF t = Absent \/ Exposed THEN {} ELSE {t}

\* The user writes into the file the target names: every link of it changes.
EditInPlace(t) ==
    /\ file[Target] # NoFile /\ spent.edits < MaxEdits
    /\ file' = [n \in Name |-> IF file[n].ino = file[Target].ino
                                  THEN [file[n] EXCEPT !.text = t] ELSE file[n]]
    /\ owed' = (owed \ {file[Target].text}) \cup Saved(t)
    /\ trouble' = trouble \cup {"edit"}
    /\ Spend("edits")
    /\ UNCHANGED <<journals, record, holder, worker, published>>

\* The user saves a new file over the target, or removes it.
EditReplace(t) ==
    /\ spent.edits < MaxEdits
    /\ file' = [file EXCEPT ![Target] = IF t = Absent THEN NoFile ELSE New(t)]
    /\ owed' = (owed \ {file[Target].text}) \cup Saved(t)
    /\ trouble' = trouble \cup {"edit"}
    /\ Spend("edits")
    /\ UNCHANGED <<journals, record, holder, worker, published>>

Next ==
    \/ \E w \in Worker :
          \/ \E c \in Candidate, op \in {"promote", "rollback", "review"} : Call(w, op, c)
          \/ Start(w) \/ BeginRecovery(w) \/ Decide(w) \/ EndRecovery(w)
          \/ Contended(w) \/ Refuse(w) \/ Begin(w)
          \/ Step(w) \/ Fail(w) \/ Throw(w) \/ Finish(w) \/ Review(w) \/ Die(w)
    \/ \E t \in UserText : EditInPlace(t)
    \/ \E t \in UserText \cup Original : EditReplace(t)
Spec == Init /\ [][Next]_vars

---------------------------------------------------------------------------
PromotionTypeOK ==
    /\ file \in [Name -> File]
    /\ record \in [Candidate -> [state : {"validated", "rejected", "promoted", "rolled_back"},
                                 rev : Nat, backup : 0 .. MaxCalls]]
    /\ holder \in Worker \cup {None}
    /\ \A j, k \in journals : j.id = k.id => j = k
    /\ owed \subseteq Text /\ trouble \subseteq {"edit", "torn", "overlap"}

\* What was in the skill file when a transaction found it, and what the user
\* saved since, is in some file, whatever fails, dies or is recovered when.
UserTextKept == \A t \in owed : \E n \in Name : file[n].text = t

\* Without user edits, half-written files and overlapping transactions, every
\* journal a dead or failed process left can be resolved: at no point of a
\* transaction or of a recovery is the next recovery at a loss.
Recoverable == trouble = {} /\ holder = None => \A j \in journals : Verdict(j) # "unresolved"

\* With no journal outstanding, no edit and no overlap the file holds what the
\* last committed revision says it does.
FileMatchesRecords ==
    journals = {} /\ trouble \subseteq {"torn"} => file[Target].text = published

\* A promoted replacement can be taken back: its independent backup is whole.
RollbackPossible ==
    \A c \in Candidate : record[c].state = "promoted" /\ Basis[c] # Absent =>
        /\ record[c].backup # 0
        /\ file[<<record[c].backup, "backup">>].text = Basis[c]
=============================================================================

------------------------ MODULE Installation_proofs ------------------------
(***************************************************************************)
(* Proofs about an installation, for every set of files, plans, releases   *)
(* and commands and every number of edits, faults and crashes.             *)
(* The links and unlinks of the manager and of the installer each name a   *)
(* slot that holds nothing or what the plan put there (Moves).             *)
(* The release manager: while no transaction is pending its receipt tells  *)
(* of the files (RelQuiet), a pending one can go either way (RelJournal:   *)
(* what it wrote is what its receipt tells of, what it took is what the    *)
(* old receipt told of), and a command that plans has made sure of its     *)
(* release and of its environment (RelCommand, Prepared).                  *)
(* The transaction of the manager: what is left to do changes a public     *)
(* file only after the receipt is withdrawn (LastInv), and of every file   *)
(* that a script has not come to, or has passed, it is known where its old *)
(* bytes are (WholeInv).  The installer's likewise, until its roll-back    *)
(* ends, of which the caller is told what came of it (DirectInv).          *)
(***************************************************************************)
EXTENDS Installation, SequenceTheorems, FiniteSetTheorems, WellFoundedInduction, TLAPS

-----------------------------------------------------------------------------
(* The links and unlinks of a transaction.                                 *)

\* Whether the files are the manager's or the installer's, there is a name for every slot.
Inodes == {"none", "before", "after", "foreign"}
Named == public \in [Slot -> Inodes] /\ edits \in Nat
\* A public file that holds what a user wrote.
Users(s) == public[s] = "foreign" \/ (public[s] # "none" /\ ~Intact(s, public[s]))

LEMMA NamesInit == ASSUME FilesInit PROVE Named
BY DEF FilesInit, Named, Inodes, Before

\* What a step may do to the public names: nothing, or one link or unlink of a slot that holds
\* nothing, or a file of the transaction with the bytes it was planned with.
Moves == \E s \in Slot, inode \in Inodes : public' = [public EXCEPT ![s] = inode] /\ ~Users(s)

LEMMA MovesKeep ==
    ASSUME Named, UNCHANGED public \/ Moves, UNCHANGED edits
    PROVE  Named' /\ \A s \in Slot : Users(s) => public'[s] = public[s]
BY DEF Named, Moves, Users

LEMMA HeldIsPlanned ==
    ASSUME NEW s, NEW inode \in {"none", "before", "after"}, Holds(s, inode)
    PROVE  ~Users(s)
BY DEF Holds, Users

LEMMA EditKeepsNames ==
    ASSUME Named, UserEdit
    PROVE  Named' /\ edits' # edits
<1>1. edits' = edits + 1 /\ edits \in Nat
    BY DEF UserEdit, Named
<1>2. public' \in [Slot -> Inodes]
    BY DEF UserEdit, Named, Inodes
<1> QED
    BY <1>1, <1>2 DEF Named

LEMMA Planned ==
    \A s : Before(s) \in Inodes \ {"foreign"} /\ After(s) \in Inodes \ {"foreign"}
BY DEF Before, After, Inodes

\* One link or unlink, of a slot or of no slot.
LEMMA OneMove ==
    ASSUME Named, NEW s, NEW inode \in Inodes, public' = [public EXCEPT ![s] = inode],
           s \in Slot => ~Users(s)
    PROVE  UNCHANGED public \/ Moves
<1>1. CASE s \in Slot
    BY <1>1 DEF Moves
<1>2. CASE s \notin Slot
    BY <1>2 DEF Named
<1> QED
    BY <1>1, <1>2

-----------------------------------------------------------------------------
(* The installer's steps.                                                  *)

LEMMA DirectUnlink ==
    ASSUME Named, Direct!UnlinkPublic PROVE (UNCHANGED public \/ Moves) /\ UNCHANGED edits
<1> DEFINE s == Direct!At
<1>1. public' = [public EXCEPT ![s] = "none"] /\ UNCHANGED edits
    BY DEF Direct!UnlinkPublic, Direct!Run, Direct!Unlink, Direct!users
<1>2. Head(todo).do = "unlink" /\ Direct!Checked(Head(todo)) /\ s = Head(todo).slot
    BY DEF Direct!UnlinkPublic, Direct!Run, Direct!Due, Direct!At
<1>3. Direct!ReadSet({})
    BY <1>2 DEF Direct!Checked
<1>4. s \in Slot => ~Users(s)
    BY <1>3, Planned, HeldIsPlanned DEF Direct!ReadSet, Direct!Slot, Slot, Direct!Holds, Holds,
       Direct!After, After, Direct!Before, Before, Direct!Intact, Intact, Inodes
<1> HIDE DEF s
<1> QED
    BY <1>1, <1>4, OneMove DEF Inodes

LEMMA DirectPublish ==
    ASSUME Named, Direct!PublishPrepared PROVE (UNCHANGED public \/ Moves) /\ UNCHANGED edits
<1> DEFINE s == Direct!At
<1>1. public' = [public EXCEPT ![s] = "after"] /\ UNCHANGED edits
    BY DEF Direct!PublishPrepared, Direct!Run, Direct!Link, Direct!users
<1>2. Head(todo).do = "publish" /\ Direct!Checked(Head(todo)) /\ s = Head(todo).slot
    BY DEF Direct!PublishPrepared, Direct!Run, Direct!Due, Direct!At
<1>3. Direct!ReadSet({s})
    BY <1>2 DEF Direct!Checked
<1>4. s \in Slot => ~Users(s)
    BY <1>3 DEF Direct!ReadSet, Direct!Slot, Slot, Users
<1> HIDE DEF s
<1> QED
    BY <1>1, <1>4, OneMove DEF Inodes

LEMMA DirectWithdraw ==
    ASSUME Named, Direct!Withdraw PROVE (UNCHANGED public \/ Moves) /\ UNCHANGED edits
<1> DEFINE s == Direct!At
<1>1. public' = [public EXCEPT ![s] = "none"] /\ UNCHANGED edits
    BY DEF Direct!Withdraw, Direct!Run, Direct!Unlink, Direct!users
<1>2. Head(todo).do = "withdraw" /\ Direct!Checked(Head(todo)) /\ s = Head(todo).slot
    BY DEF Direct!Withdraw, Direct!Run, Direct!Due, Direct!At
<1>3. public[s] = "none" \/ Direct!Holds(s, "after")
    BY <1>2 DEF Direct!Checked
<1>4. ~Users(s)
    BY <1>3 DEF Users, Direct!Holds, Direct!Intact, Intact
<1> HIDE DEF s
<1> QED
    BY <1>1, <1>4, OneMove DEF Inodes

LEMMA DirectReturn ==
    ASSUME Named, Direct!Return PROVE (UNCHANGED public \/ Moves) /\ UNCHANGED edits
<1> DEFINE s == Direct!At
<1>1. public' = [public EXCEPT ![s] = "before"] /\ UNCHANGED edits
    BY DEF Direct!Return, Direct!Run, Direct!Link, Direct!users
<1>2. Head(todo).do = "return" /\ Direct!Checked(Head(todo)) /\ s = Head(todo).slot
    BY DEF Direct!Return, Direct!Run, Direct!Due, Direct!At
<1>3. public[s] = "none"
    BY <1>2 DEF Direct!Checked
<1>4. ~Users(s)
    BY <1>3 DEF Users
<1> HIDE DEF s
<1> QED
    BY <1>1, <1>4, OneMove DEF Inodes

LEMMA DirectSteps ==
    ASSUME Named, Direct!Next
    PROVE  ((UNCHANGED public \/ Moves) /\ UNCHANGED edits) \/ UserEdit
<1>1. CASE Direct!Begin
    BY <1>1 DEF Direct!Begin, Direct!BeginWith, Direct!users
<1>2. CASE Direct!Claim
    BY <1>2 DEF Direct!Claim, Direct!Run, Direct!TakeClaim, Direct!users
<1>3. CASE Direct!Verify
    BY <1>3 DEF Direct!Verify, Direct!Run, Direct!links, Direct!users
<1>4. CASE Direct!DropAuxiliary
    BY <1>4 DEF Direct!DropAuxiliary, Direct!Run, Direct!Drop, Direct!users
<1>5. CASE Direct!Refuse
    BY <1>5 DEF Direct!Refuse, Direct!links, Direct!users
<1>6. CASE Direct!Fault
    BY <1>6 DEF Direct!Fault, Direct!links, Direct!users
<1>7. CASE Direct!Crash
    BY <1>7 DEF Direct!Crash, Direct!CrashCommand, Direct!links, Direct!users
<1>8. CASE Direct!Edit
    BY <1>8 DEF Direct!Edit, Direct!UserEdit, UserEdit, Direct!command, command, Direct!bounds, bounds,
       Direct!Slot, Slot
<1> QED
    BY <1>1, <1>2, <1>3, <1>4, <1>5, <1>6, <1>7, <1>8, DirectUnlink, DirectPublish, DirectWithdraw,
       DirectReturn DEF Direct!Next

-----------------------------------------------------------------------------
(* The manager's steps.                                                    *)

LEMMA ManagerHolds ==
    ASSUME NEW s, NEW inode, Manager!Holds(s, inode) PROVE Holds(s, inode)
BY DEF Manager!Holds, Holds, Manager!Intact, Intact

LEMMA ManagerPlans == \A s : Manager!Before(s) = Before(s) /\ Manager!After(s) = After(s)
BY DEF Manager!Before, Before, Manager!After, After

LEMMA ManagerUnlink ==
    ASSUME Named, Manager!UnlinkPublic PROVE (UNCHANGED public \/ Moves) /\ UNCHANGED edits
<1> DEFINE s == Manager!At
<1>1. public' = [public EXCEPT ![s] = "none"] /\ UNCHANGED edits
    BY DEF Manager!UnlinkPublic, Manager!Run, Manager!Unlink, Manager!users
<1>2. Head(todo).do = "unlink" /\ Manager!Checked(Head(todo)) /\ s = Head(todo).slot
    BY DEF Manager!UnlinkPublic, Manager!Run, Manager!Due, Manager!At
<1>3. Manager!Baseline /\ Manager!ReadSet({})
    BY <1>2 DEF Manager!Checked
<1>4. CASE s \in File
    <2>1. PICK inode \in {Before(s), After(s)} : Manager!Holds(s, inode)
        BY <1>3, <1>4, ManagerPlans DEF Manager!ReadSet, Manager!File, File
    <2>2. inode \in {"none", "before", "after"}
        BY Planned DEF Inodes
    <2>3. ~Users(s)
        BY <2>1, <2>2, ManagerHolds, HeldIsPlanned
    <2> HIDE DEF s
    <2> QED
        BY <1>1, <2>3, OneMove DEF Inodes
<1>5. CASE s = Receipt
    <2>1. Manager!Holds(s, Before(s))
        BY <1>3, <1>5, ManagerPlans DEF Manager!Baseline, Manager!Receipt, Receipt
    <2>2. Before(s) \in {"none", "before", "after"}
        BY Planned DEF Inodes
    <2>3. ~Users(s)
        BY <2>1, <2>2, ManagerHolds, HeldIsPlanned
    <2> HIDE DEF s
    <2> QED
        BY <1>1, <2>3, OneMove DEF Inodes
<1>6. CASE s \notin Slot
    <2> HIDE DEF s
    <2> QED
        BY <1>1, <1>6, OneMove DEF Inodes
<1>7. s \in Slot => s \in File \/ s = Receipt
    BY FilesAssumption DEF Slot, File, Receipt
<1> QED
    BY <1>4, <1>5, <1>6, <1>7

LEMMA ManagerPublish ==
    ASSUME Named, Manager!PublishPrepared PROVE (UNCHANGED public \/ Moves) /\ UNCHANGED edits
<1> DEFINE s == Manager!At
<1>1. public' = [public EXCEPT ![s] = "after"] /\ UNCHANGED edits
    BY DEF Manager!PublishPrepared, Manager!Run, Manager!Link, Manager!users
<1>2. Head(todo).do = "publish" /\ Manager!Checked(Head(todo)) /\ s = Head(todo).slot
    BY DEF Manager!PublishPrepared, Manager!Run, Manager!Due, Manager!At
<1>3. s \in Slot => public[s] = "none"
    <2>1. CASE s = Receipt
        BY <1>2, <2>1 DEF Manager!Checked, Manager!Receipt, Receipt
    <2>2. CASE s # Receipt
        <3>1. Manager!ReadSet({s})
            BY <1>2, <2>2 DEF Manager!Checked, Manager!Receipt, Receipt
        <3>2. s \in Slot => s \in File
            BY <2>2, FilesAssumption DEF Slot, File, Receipt
        <3> QED
            BY <3>1, <3>2 DEF Manager!ReadSet, Manager!File, File
    <2> QED
        BY <2>1, <2>2
<1>4. s \in Slot => ~Users(s)
    BY <1>3 DEF Users
<1> HIDE DEF s
<1> QED
    BY <1>1, <1>4, OneMove DEF Inodes

LEMMA ManagerWithdraw ==
    ASSUME Named, Manager!Withdraw PROVE (UNCHANGED public \/ Moves) /\ UNCHANGED edits
<1> DEFINE s == Manager!At
<1>1. UNCHANGED edits
    BY DEF Manager!Withdraw, Manager!Run, Manager!users
<1>2. CASE Manager!Class(s) # "after"
    BY <1>1, <1>2 DEF Manager!Withdraw, Manager!links
<1>3. CASE Manager!Class(s) = "after"
    <2>1. public' = [public EXCEPT ![s] = "none"]
        BY <1>3 DEF Manager!Withdraw, Manager!Unlink
    <2>2. Manager!Holds(s, "after")
        BY <1>3 DEF Manager!Class
    <2>3. ~Users(s)
        BY <2>2, ManagerHolds, HeldIsPlanned
    <2> HIDE DEF s
    <2> QED
        BY <1>1, <2>1, <2>3, OneMove DEF Inodes
<1> QED
    BY <1>2, <1>3

LEMMA ManagerReturn ==
    ASSUME Named, Manager!Return PROVE (UNCHANGED public \/ Moves) /\ UNCHANGED edits
<1> DEFINE s == Manager!At
<1>1. UNCHANGED edits
    BY DEF Manager!Return, Manager!Run, Manager!users
<1>2. CASE public[s] # "none"
    BY <1>1, <1>2 DEF Manager!Return, Manager!links
<1>3. CASE public[s] = "none"
    <2>1. public' = [public EXCEPT ![s] = "before"]
        BY <1>3 DEF Manager!Return, Manager!Link
    <2>3. ~Users(s)
        BY <1>3 DEF Users
    <2> HIDE DEF s
    <2> QED
        BY <1>1, <2>1, <2>3, OneMove DEF Inodes
<1> QED
    BY <1>2, <1>3

LEMMA ManagerSteps ==
    ASSUME Named, Manager!Next
    PROVE  ((UNCHANGED public \/ Moves) /\ UNCHANGED edits) \/ UserEdit
<1>1. CASE Manager!Begin
    BY <1>1 DEF Manager!Begin, Manager!BeginWith, Manager!users
<1>2. CASE Manager!PublishData \/ Manager!PublishAnchor \/ Manager!EraseAnchor \/ Manager!EraseData
    BY <1>2 DEF Manager!PublishData, Manager!PublishAnchor, Manager!EraseAnchor, Manager!EraseData,
       Manager!links, Manager!users
<1>3. CASE Manager!Claim
    BY <1>3 DEF Manager!Claim, Manager!Run, Manager!TakeClaim, Manager!users
<1>4. CASE Manager!Preflight
    BY <1>4 DEF Manager!Preflight, Manager!Run, Manager!links, Manager!users
<1>5. CASE Manager!DropAuxiliary
    BY <1>5 DEF Manager!DropAuxiliary, Manager!Run, Manager!Drop, Manager!users
<1>6. CASE Manager!Refuse \/ Manager!Fault \/ Manager!JournalFault
    BY <1>6 DEF Manager!Refuse, Manager!Fault, Manager!JournalFault, Manager!links, Manager!users
<1>7. CASE Manager!Crash
    BY <1>7 DEF Manager!Crash, Manager!CrashCommand, Manager!links, Manager!users
<1>8. CASE Manager!Recover
    BY <1>8 DEF Manager!Recover, Manager!links, Manager!users
<1>9. CASE Manager!Edit
    BY <1>9 DEF Manager!Edit, Manager!UserEdit, UserEdit, Manager!command, command, Manager!bounds,
       bounds, Manager!Slot, Slot
<1> QED
    BY <1>1, <1>2, <1>3, <1>4, <1>5, <1>6, <1>7, <1>8, <1>9, ManagerUnlink, ManagerPublish,
       ManagerWithdraw, ManagerReturn DEF Manager!Next

LEMMA EveryStepKeeps ==
    ASSUME Named, [InstallationNext]_<<vars, releases>>
    PROVE  /\ Named'
           /\ edits' = edits => \A s \in Slot : Users(s) => public'[s] = public[s]
<1>1. ((UNCHANGED public \/ Moves) /\ UNCHANGED edits) \/ UserEdit
    BY DirectSteps, ManagerSteps DEF InstallationNext, Next, vars, files, links, users
<1>2. CASE (UNCHANGED public \/ Moves) /\ UNCHANGED edits
    BY <1>2, MovesKeep
<1>3. CASE UserEdit
    BY <1>3, EditKeepsNames
<1> QED
    BY <1>1, <1>2, <1>3

\* Neither the manager nor the direct installer ever unlinks or overwrites a public file that
\* holds what a user wrote, whatever the plan and wherever a fault, a crash or another edit
\* falls (the read sets that commitTransaction, recoverJournal and commitFileCasPlans compare
\* before each link and unlink).
THEOREM UserBytesSurvive == InstallationSpec => UserBytesKept
<1>1. InstallationInit => Named
    BY NamesInit DEF InstallationInit, Init, Manager!Init, Direct!Init, Manager!FilesInit, Direct!FilesInit,
       FilesInit, Manager!Before, Direct!Before, Manager!Slot, Direct!Slot, Slot, Before
<1>2. Named /\ [InstallationNext]_<<vars, releases>> => Named'
    BY EveryStepKeeps
<1>3. Named /\ [InstallationNext]_<<vars, releases>> =>
          [\A s \in Slot : edits' = edits /\ (public[s] = "foreign" \/ (public[s] # "none" /\ ~Intact(s, public[s])))
              => public'[s] = public[s]]_files
    BY EveryStepKeeps DEF Users
<1> QED
    BY <1>1, <1>2, <1>3, PTL DEF InstallationSpec, UserBytesKept

-----------------------------------------------------------------------------
(* The release manager: its records.                                       *)

Plugins == Release \cup {Releases!Source}
Targets == Release \cup {Releases!None}
Owned == Releases!Bytes \cup {"nobody", "missing"}
Receipts ==
    [exists : BOOLEAN, installed : BOOLEAN, active : Targets, gens : Seq(Release),
     env : [Release -> Nat], owned : Owned, pending : BOOLEAN]
GensOf(r) == {r.gens[i] : i \in DOMAIN r.gens}
EntryOf(r) == IF r.installed THEN r.env[r.active] ELSE Releases!None

LEMMA GensAre ==
    ASSUME NEW r \in Receipts
    PROVE  /\ r.gens \in Seq(Release) /\ Len(r.gens) \in Nat /\ DOMAIN r.gens = 1 .. Len(r.gens)
           /\ GensOf(r) \subseteq Release
<1>1. r.gens \in Seq(Release)
    BY DEF Receipts
<1>2. Len(r.gens) \in Nat /\ DOMAIN r.gens = 1 .. Len(r.gens)
    BY <1>1, LenProperties
<1>3. \A i \in 1 .. Len(r.gens) : r.gens[i] \in Release
    BY <1>1, ElementOfSeq
<1> QED
    BY <1>1, <1>2, <1>3 DEF GensOf

LEMMA SameGens == Releases!Gens = GensOf(receipt) /\ \A r : GensOf(r) = Releases!ToSet(r.gens)
BY DEF Releases!Gens, Releases!ToSet, GensOf

\* A generation that is taken out leaves only others behind.
LEMMA OthersAre ==
    ASSUME receipt \in Receipts, NEW t \in Release
    PROVE  /\ Releases!Others(t) \in Seq(Release)
           /\ \A i \in 1 .. Len(Releases!Others(t)) : Releases!Others(t)[i] \in GensOf(receipt)
<1> DEFINE s == receipt.gens
           others == Releases!Others(t)
<1>1. s \in Seq(Release) /\ Len(s) \in Nat /\ DOMAIN s = 1 .. Len(s) /\ GensOf(receipt) \subseteq Release
    BY GensAre
<1>2. \A i \in 1 .. Len(s) : s[i] \in GensOf(receipt)
    BY <1>1 DEF GensOf
<1>3. CASE t \notin Releases!Gens
    BY <1>1, <1>2, <1>3 DEF Releases!Others
<1>4. CASE t \in Releases!Gens
    <2> DEFINE k == CHOOSE i \in DOMAIN s : s[i] = t
               a == SubSeq(s, 1, k - 1)
               b == SubSeq(s, k + 1, Len(s))
    <2>1. k \in 1 .. Len(s)
        BY <1>1, <1>4 DEF Releases!Gens, Releases!ToSet
    <2>2. others = a \o b
        BY <1>4 DEF Releases!Others, Releases!RemoveAt
    <2> HIDE DEF k
    <2>3. /\ a \in Seq(GensOf(receipt)) /\ b \in Seq(GensOf(receipt))
        <3>1. /\ k - 1 \in Int /\ k + 1 \in Int /\ Len(s) \in Int /\ 1 \in Int
              /\ \A i \in 1 .. k - 1 : s[i] \in GensOf(receipt)
              /\ \A i \in k + 1 .. Len(s) : s[i] \in GensOf(receipt)
            BY <1>1, <1>2, <2>1
        <3> HIDE DEF s
        <3> QED
            BY <3>1, SubSeqProperties
    <2> HIDE DEF a, b
    <2>4. a \o b \in Seq(GensOf(receipt))
        BY <2>3, ConcatProperties
    <2> HIDE DEF others
    <2>5. others \in Seq(GensOf(receipt))
        BY <2>2, <2>4
    <2>6. others \in Seq(Release)
        BY <2>5, <1>1, SeqMonotonic
    <2>7. \A i \in 1 .. Len(others) : others[i] \in GensOf(receipt)
        BY <2>5, ElementOfSeq
    <2> QED
        BY <2>6, <2>7 DEF others
<1> QED
    BY <1>3, <1>4

LEMMA RetainedAre ==
    ASSUME receipt \in Receipts, NEW t \in Release
    PROVE  /\ Releases!Retained(t) \in Seq(Release)
           /\ {Releases!Retained(t)[i] : i \in DOMAIN Releases!Retained(t)} \subseteq GensOf(receipt) \cup {t}
           /\ t \in {Releases!Retained(t)[i] : i \in DOMAIN Releases!Retained(t)}
<1> DEFINE others == Releases!Others(t)
           all == Append(others, t)
           n == Len(all)
           from == n - MaxGenerations + 1
           cut == SubSeq(all, from, n)
           kept == Releases!Retained(t)
<1>1. others \in Seq(Release) /\ \A i \in 1 .. Len(others) : others[i] \in GensOf(receipt)
    BY OthersAre
<1>2. kept = IF n > MaxGenerations THEN cut ELSE all
    BY DEF Releases!Retained
<1>3. Len(others) \in Nat
    BY <1>1, LenProperties
<1> HIDE DEF others
<1>4. /\ all \in Seq(Release) /\ n = Len(others) + 1 /\ all[n] = t
      /\ \A i \in 1 .. Len(others) : all[i] = others[i]
    BY <1>1, AppendProperties
<1> HIDE DEF all
<1>5. DOMAIN all = 1 .. n
    BY <1>4, LenProperties
<1>6. \A i \in 1 .. n : all[i] \in GensOf(receipt) \cup {t}
    BY <1>1, <1>3, <1>4
<1>7. CASE n > MaxGenerations
    <2>1. from \in 1 .. n /\ n \in Int /\ from \in Int /\ n - from + 1 \in 1 .. n /\ from + (n - from + 1) - 1 = n
        BY <1>3, <1>4, <1>7, ReleaseAssumption
    <2> HIDE DEF from, n
    <2>2. \A i \in from .. n : all[i] \in GensOf(receipt) \cup {t} /\ all[i] \in Release
        <3>1. \A i \in from .. n : i \in 1 .. n
            BY <2>1
        <3>2. \A i \in 1 .. n : all[i] \in Release
            BY <1>4, ElementOfSeq DEF n
        <3> QED
            BY <1>6, <3>1, <3>2
    <2>3. /\ cut \in Seq(Release) /\ Len(cut) = n - from + 1
          /\ \A i \in 1 .. n - from + 1 : cut[i] = all[from + i - 1]
        <3>1. from <= n
            BY <2>1
        <3>2. Len(cut) = IF from <= n THEN n - from + 1 ELSE 0
            BY <2>1, <2>2, SubSeqProperties
        <3> QED
            BY <2>1, <2>2, <3>1, <3>2, SubSeqProperties
    <2>4. DOMAIN cut = 1 .. n - from + 1
        BY <2>3, LenProperties
    <2> HIDE DEF cut
    <2>5. \A i \in 1 .. n - from + 1 : cut[i] \in GensOf(receipt) \cup {t}
        <3>1. \A i \in 1 .. n - from + 1 : from + i - 1 \in from .. n
            BY <2>1
        <3> QED
            BY <2>2, <2>3, <3>1
    <2>6. cut[n - from + 1] = t
        BY <1>4, <2>1, <2>3
    <2>7. kept = cut
        BY <1>2, <1>7
    <2> HIDE DEF kept
    <2> QED
        BY <2>1, <2>3, <2>4, <2>5, <2>6, <2>7 DEF kept
<1>8. CASE ~(n > MaxGenerations)
    <2>1. kept = all
        BY <1>2, <1>8
    <2>2. n \in DOMAIN all
        BY <1>3, <1>4, <1>5
    <2> QED
        BY <1>4, <1>5, <1>6, <2>1, <2>2
<1> QED
    BY <1>7, <1>8

-----------------------------------------------------------------------------
(* The release manager: what its commands keep.                            *)

FilesOf == [server : SUBSET Plugins, tui : SUBSET Plugins, mcp : Int, agent : Releases!Bytes]
Early == {"promote", "materialise", "excel", "plan"}
Late == {"commit", "receipt", "forget"}
Plans(pcs) ==
    [pc : pcs, o : Options, before : FilesOf, after : FilesOf, receipt : Receipts]
Runs ==
    {Releases!Idle} \cup [pc : Early, o : Options, target : Targets, env : Nat] \cup Plans(Late)
Journals == {Releases!NoJournal} \cup Plans({"open"})

\* A receipt names as active a generation it retains, and environments that were built.
Recorded(r, n) ==
    /\ IF r.installed THEN r.exists /\ r.active \in GensOf(r) ELSE r.active = Releases!None
    /\ \A g \in Release : r.env[g] \in 0 .. n
SoundIn(env, en) == env # Releases!None => en[env]
\* Its generations are as they were built, unless users changed that.
StandsIn(r, tr, en, to) == \A g \in GensOf(r) :
    /\ "tree" \notin to => tr[g] = "whole"
    /\ "env" \notin to => SoundIn(r.env[g], en)
\* The files say what the receipt says, but for those users changed.
HasIt(l, r) == r.owned \notin {"nobody", "missing", "custom"} /\ l.agent = r.owned
Registers(plugins, r) ==
    plugins \cap (GensOf(r) \cup {r.active}) = (IF r.installed THEN {r.active} ELSE {})
Accords(l, r, to) ==
    /\ "server" \notin to => Registers(l.server, r) /\ Registers(l.tui, r)
    /\ "mcp" \notin to =>
          IF EntryOf(r) # Releases!None THEN l.mcp = EntryOf(r)
          ELSE l.mcp \in {Releases!None, Releases!Custom}
    /\ "agent" \notin to =>
          IF r.owned = "missing" THEN l.agent = "none"
          ELSE r.owned \notin {"nobody", "custom"} => HasIt(l, r)
\* No mcp entry but users' own and the receipt's, changed by users or not.
Follows(l, r) == l.mcp \in {Releases!None, Releases!Custom, EntryOf(r)}
Told(l, r, to) == Follows(l, r) /\ (r.exists => Accords(l, r, to))
\* What a plan writes accords with the receipt it writes.
GoodPlan(c, tr, en, to) ==
    /\ c.receipt.exists /\ Recorded(c.receipt, Len(en)) /\ StandsIn(c.receipt, tr, en, to)
    /\ Accords(c.after, c.receipt, {})
\* Files that nobody wrote to since are still the plan's.
Unmoved(l, m, mv) ==
    /\ "server" \notin mv => l.server = m.server /\ l.mcp = m.mcp
    /\ "tui" \notin mv => l.tui = m.tui
    /\ "agent" \notin mv => l.agent = m.agent
Written(l, m, to) ==
    /\ "server" \notin to => l.server = m.server
    /\ "mcp" \notin to => l.mcp = m.mcp
    /\ "agent" \notin to => l.agent = m.agent
    /\ l.tui = m.tui /\ l.mcp \in {Releases!None, Releases!Custom, m.mcp}
Takes(c, r) ==
    /\ c.after.mcp # c.before.mcp => c.before.mcp \in {Releases!None, EntryOf(r)}
    /\ c.after.agent # c.before.agent =>
          c.before.agent = "none" \/ HasIt(c.before, r) \/ c.o.policy = "force"

RelShape ==
    /\ receipt \in Receipts
    /\ tree \in [Release -> {"absent", "partial", "whole", "drifted"}]
    /\ envs \in Seq(BOOLEAN) /\ live \in FilesOf
    /\ pending \in Journals /\ run \in Runs
RelReceipt == Recorded(receipt, Len(envs)) /\ StandsIn(receipt, tree, envs, touched)
RelQuiet == pending = Releases!NoJournal => Told(live, receipt, touched)
RelJournal == pending # Releases!NoJournal =>
    /\ GoodPlan(pending, tree, envs, touched)
    /\ Unmoved(live, pending.after, moved) /\ Written(live, pending.after, touched)
    /\ run.pc = "receipt" \/ receipt # pending.receipt => Told(pending.before, receipt, touched)
\* What a command has made sure of by the time it plans.
Prepared(c, installed, tr, en, to) ==
    /\ IF c.target = Releases!None THEN c.o.op = "uninstall" /\ installed /\ c.pc = "plan" /\ c.env = Releases!None
       ELSE c.o.op # "uninstall"
    /\ c.env \in 0 .. Len(en) /\ (c.pc # "plan" => c.env = Releases!None)
    /\ c.pc = "materialise" => tr[c.target] = "partial"
    /\ c.pc \in {"excel", "plan"} /\ ~c.o.dry /\ c.target # Releases!None /\ "tree" \notin to =>
          tr[c.target] = "whole"
    /\ "env" \notin to => SoundIn(c.env, en)
RelCommand ==
    /\ run.pc \in Early =>
          pending = Releases!NoJournal /\ Prepared(run, receipt.installed, tree, envs, touched)
    /\ run.pc = "commit" =>
          /\ pending = Releases!NoJournal /\ GoodPlan(run, tree, envs, touched) /\ Takes(run, receipt)
          /\ Unmoved(live, run.before, moved)
    /\ run.pc \in {"receipt", "forget"} => pending = [run EXCEPT !.pc = "open"]
    /\ run.pc = "forget" => receipt = run.receipt
RelInv == RelShape /\ RelReceipt /\ RelQuiet /\ RelJournal /\ RelCommand

-----------------------------------------------------------------------------
(* Files, receipts and plans.                                              *)

LEMMA FilesOfFields ==
    ASSUME NEW f, DOMAIN f = {"server", "tui", "mcp", "agent"}, f = [x \in DOMAIN f |-> f[x]],
           f.server \in SUBSET Plugins, f.tui \in SUBSET Plugins, f.mcp \in Int, f.agent \in Releases!Bytes
    PROVE  f \in FilesOf
<1>1. f = [server |-> f.server, tui |-> f.tui, mcp |-> f.mcp, agent |-> f.agent]
    OBVIOUS
<1> QED
    BY <1>1 DEF FilesOf

LEMMA Pcs ==
    ASSUME run \in Runs
    PROVE  /\ run.pc \in Early \cup Late \cup {"idle"}
           /\ run.pc = "idle" <=> run = Releases!Idle
           /\ run.pc \in Early => run \in [pc : Early, o : Options, target : Targets, env : Nat]
           /\ run.pc \in Late => run \in Plans(Late)
<1>1. CASE run = Releases!Idle
    BY <1>1 DEF Releases!Idle, Early, Late
<1>2. CASE run \in [pc : Early, o : Options, target : Targets, env : Nat]
    <2>1. run.pc \in Early
        BY <1>2
    <2> QED
        BY <1>2, <2>1 DEF Releases!Idle, Early, Late
<1>3. CASE run \in Plans(Late)
    <2>1. run.pc \in Late
        BY <1>3 DEF Plans
    <2> QED
        BY <1>3, <2>1 DEF Releases!Idle, Early, Late
<1> QED
    BY <1>1, <1>2, <1>3 DEF Runs

LEMMA StandsStill ==
    ASSUME NEW r, NEW tr, NEW en, NEW to, NEW wider, StandsIn(r, tr, en, to),
           "tree" \in to => "tree" \in wider, "env" \in to => "env" \in wider
    PROVE  StandsIn(r, tr, en, wider)
BY DEF StandsIn

LEMMA AccordsStill ==
    ASSUME NEW l, NEW r, NEW to, NEW wider, to \subseteq wider
    PROVE  /\ Accords(l, r, to) => Accords(l, r, wider)
           /\ Told(l, r, to) => Told(l, r, wider)
<1>1. Accords(l, r, to) => Accords(l, r, wider)
    BY DEF Accords
<1> QED
    BY <1>1 DEF Told

\* What was written is told truly by the receipt that was written for it.
LEMMA WrittenIsTold ==
    ASSUME NEW l, NEW m, NEW r, NEW to, Accords(m, r, {}), Written(l, m, to)
    PROVE  Told(l, r, to)
<1>1. Follows(l, r)
    BY DEF Accords, Written, Follows
<1>2. "server" \notin to => Registers(l.server, r) /\ Registers(l.tui, r)
    BY DEF Accords, Written
<1>3. "mcp" \notin to =>
          IF EntryOf(r) # Releases!None THEN l.mcp = EntryOf(r)
          ELSE l.mcp \in {Releases!None, Releases!Custom}
    BY DEF Accords, Written
<1>4. "agent" \notin to =>
          IF r.owned = "missing" THEN l.agent = "none"
          ELSE r.owned \notin {"nobody", "custom"} => HasIt(l, r)
    BY DEF Accords, Written, HasIt
<1> QED
    BY <1>1, <1>2, <1>3, <1>4 DEF Accords, Told

\* Files that agree with what a receipt is told of, but for those users changed.
LEMMA LikeIsTold ==
    ASSUME NEW l, NEW m, NEW r, NEW to, Told(m, r, to), l.mcp \in {Releases!None, Releases!Custom, m.mcp},
           "server" \notin to => l.server = m.server /\ l.tui = m.tui,
           "mcp" \notin to => l.mcp = m.mcp, "agent" \notin to => l.agent = m.agent
    PROVE  Told(l, r, to)
<1>1. Follows(l, r)
    BY DEF Told, Follows
<1>2. r.exists => Accords(l, r, to)
    BY DEF Told, Accords, HasIt
<1> QED
    BY <1>1, <1>2 DEF Told

\* A transaction that is taken back leaves what it was planned from, but for users' writes.
LEMMA TakenBackIsTold ==
    ASSUME NEW c \in Plans({"open"} \cup Late), live \in FilesOf, Written(live, c.after, touched),
           Told(c.before, receipt, touched)
    PROVE  /\ Releases!TakenBack(c) \in FilesOf
           /\ Told(Releases!TakenBack(c), receipt, touched)
<1> DEFINE back == Releases!TakenBack(c)
           b == c.before
           a == c.after
<1>1. /\ b \in FilesOf /\ a \in FilesOf
      /\ DOMAIN live = {"server", "tui", "mcp", "agent"}
    BY DEF FilesOf, Plans
<1>2. DOMAIN back = {"server", "tui", "mcp", "agent"} /\ back = [x \in DOMAIN back |-> back[x]]
    BY <1>1 DEF Releases!TakenBack
<1>3. \A x \in {"server", "tui", "mcp", "agent"} :
          back[x] = b[x] \/ (back[x] = live[x] /\ a[x] = b[x])
    <2> SUFFICES ASSUME NEW x \in {"server", "tui", "mcp", "agent"}
                 PROVE  back[x] = b[x] \/ (back[x] = live[x] /\ a[x] = b[x])
        OBVIOUS
    <2>1. PICK f \in {"server", "tui", "agent"} : x \in Releases!Fields[f]
        BY DEF Releases!Fields
    <2>2. back[x] = IF \E g \in Releases!Replaced(c) : x \in Releases!Fields[g] THEN b[x] ELSE live[x]
        BY <1>1 DEF Releases!TakenBack
    <2>3. f \in Releases!Replaced(c) \/ a[x] = b[x]
        BY <2>1 DEF Releases!Replaced, Releases!Fields
    <2> QED
        BY <2>1, <2>2, <2>3
<1> HIDE DEF back
<1>4. /\ back.server = b.server \/ (back.server = live.server /\ a.server = b.server)
      /\ back.tui = b.tui \/ (back.tui = live.tui /\ a.tui = b.tui)
      /\ back.mcp = b.mcp \/ (back.mcp = live.mcp /\ a.mcp = b.mcp)
      /\ back.agent = b.agent \/ (back.agent = live.agent /\ a.agent = b.agent)
    BY <1>3
<1>5. back \in FilesOf
    <2>1. /\ back.server \in SUBSET Plugins /\ back.tui \in SUBSET Plugins
          /\ back.mcp \in Int /\ back.agent \in Releases!Bytes
        BY <1>1, <1>4 DEF FilesOf
    <2> QED
        BY <1>2, <2>1, FilesOfFields
<1>6. Told(back, receipt, touched)
    BY <1>4, LikeIsTold DEF Written
<1> QED
    BY <1>5, <1>6 DEF back

-----------------------------------------------------------------------------
(* The release manager: its commands.                                      *)

EarlyRuns == [pc : Early, o : Options, target : Targets, env : Nat]

\* Before the commit a command changes neither the receipt nor the shared files.
LEMMA EarlyStep ==
    ASSUME RelInv, pending = Releases!NoJournal, UNCHANGED <<receipt, live, pending, touched>>,
           tree' \in [Release -> {"absent", "partial", "whole", "drifted"}], envs' \in Seq(BOOLEAN),
           StandsIn(receipt, tree', envs', touched), Len(envs') \in Nat, Len(envs') >= Len(envs),
           \/ run' = Releases!Idle
           \/ run' \in EarlyRuns /\ Prepared(run', receipt.installed, tree', envs', touched)
    PROVE  RelInv'
<1>1. RelShape'
    BY DEF RelInv, RelShape, Runs, EarlyRuns
<1>2. RelReceipt'
    <2>1. Len(envs) \in Nat
        BY LenProperties DEF RelInv, RelShape
    <2>2. Recorded(receipt, Len(envs'))
        BY <2>1 DEF RelInv, RelReceipt, Recorded
    <2> QED
        BY <2>2 DEF RelReceipt
<1>3. RelQuiet'
    BY DEF RelInv, RelQuiet
<1>4. RelJournal'
    BY DEF RelJournal
<1>5. RelCommand'
    <2>1. run'.pc \in Early \cup {"idle"} /\ (run'.pc \in Early => run' # Releases!Idle)
        BY DEF Releases!Idle, EarlyRuns, Early
    <2> QED
        BY <2>1 DEF RelCommand, Early
<1> QED
    BY <1>1, <1>2, <1>3, <1>4, <1>5 DEF RelInv

\* A command that ends, or dies, before its receipt is published leaves all as it is.
LEMMA EndStep ==
    ASSUME RelInv, UNCHANGED <<receipt, tree, envs, live, pending, moved, touched>>, run' = Releases!Idle
    PROVE  RelInv'
<1>1. RelShape' /\ RelReceipt' /\ RelQuiet'
    BY DEF RelInv, RelShape, Runs, RelReceipt, RelQuiet
<1>2. run'.pc = "idle"
    BY DEF Releases!Idle
<1>3. RelJournal'
    BY <1>2 DEF RelInv, RelJournal
<1>4. RelCommand'
    BY <1>2 DEF RelCommand, Early
<1> QED
    BY <1>1, <1>3, <1>4 DEF RelInv

LEMMA ShapeFacts ==
    ASSUME RelInv
    PROVE  /\ Len(envs) \in Nat /\ DOMAIN envs = 1 .. Len(envs)
           /\ \A i \in 1 .. Len(envs) : envs[i] \in BOOLEAN
           /\ receipt.active \in Targets /\ receipt.env \in [Release -> Nat]
           /\ receipt.installed \in BOOLEAN /\ receipt.exists \in BOOLEAN
           /\ GensOf(receipt) \subseteq Release /\ Releases!Gens = GensOf(receipt)
           /\ \A g \in Release : receipt.env[g] \in 0 .. Len(envs)
           /\ receipt.installed => receipt.exists /\ receipt.active \in GensOf(receipt)
           /\ ~receipt.installed => receipt.active = Releases!None
           /\ Releases!Prior = EntryOf(receipt) /\ Releases!Prior \in 0 .. Len(envs)
           /\ Releases!None = 0 /\ Releases!None \notin Release
<1>1. envs \in Seq(BOOLEAN) /\ receipt \in Receipts /\ Recorded(receipt, Len(envs))
    BY DEF RelInv, RelShape, RelReceipt
<1>2. Len(envs) \in Nat /\ DOMAIN envs = 1 .. Len(envs) /\ \A i \in 1 .. Len(envs) : envs[i] \in BOOLEAN
    BY <1>1, LenProperties, ElementOfSeq
<1>3. /\ receipt.active \in Targets /\ receipt.env \in [Release -> Nat]
      /\ receipt.installed \in BOOLEAN /\ receipt.exists \in BOOLEAN
    BY <1>1 DEF Receipts
<1>4. GensOf(receipt) \subseteq Release /\ Releases!Gens = GensOf(receipt)
    BY <1>1, GensAre, SameGens
<1>5. Releases!None = 0 /\ Releases!None \notin Release
    BY ReleaseAssumption DEF Releases!None
<1>6. /\ \A g \in Release : receipt.env[g] \in 0 .. Len(envs)
      /\ receipt.installed => receipt.exists /\ receipt.active \in GensOf(receipt)
      /\ ~receipt.installed => receipt.active = Releases!None
    BY <1>1, <1>3 DEF Recorded
<1>7. Releases!Prior = EntryOf(receipt)
    BY DEF Releases!Prior, EntryOf
<1>8. EntryOf(receipt) \in 0 .. Len(envs)
    BY <1>2, <1>4, <1>5, <1>6 DEF EntryOf
<1> QED
    BY <1>2, <1>3, <1>4, <1>5, <1>6, <1>7, <1>8

LEMMA SameSound == \A env : Releases!Sound(env) = SoundIn(env, envs)
BY DEF Releases!Sound, SoundIn

\* The four ways a command is launched.
LEMMA Launches ==
    ASSUME RelInv, Releases!Command, NEW o \in Options, NEW pc \in Early, NEW t \in Targets, NEW e \in 0 .. Len(envs),
           Releases!Launch(o, pc, t, e), pc # "materialise", pc # "plan" => e = Releases!None,
           IF t = Releases!None THEN o.op = "uninstall" /\ receipt.installed /\ pc = "plan" /\ e = Releases!None
           ELSE o.op # "uninstall",
           pc \in {"excel", "plan"} /\ ~o.dry /\ t # Releases!None /\ "tree" \notin touched => tree[t] = "whole",
           "env" \notin touched => SoundIn(e, envs)
    PROVE  RelInv'
<1>1. /\ pending = Releases!NoJournal
      /\ UNCHANGED <<receipt, tree, envs, live, pending, moved, touched>>
    BY DEF Releases!Command, Releases!Pending
<1>2. run' = [pc |-> pc, o |-> o, target |-> t, env |-> e]
    BY DEF Releases!Launch
<1>3. Len(envs) \in Nat
    BY ShapeFacts
<1>4. run' \in EarlyRuns
    BY <1>2, <1>3 DEF EarlyRuns
<1>5. Prepared(run', receipt.installed, tree', envs', touched)
    BY <1>1, <1>2 DEF Prepared
<1>6. /\ tree \in [Release -> {"absent", "partial", "whole", "drifted"}] /\ envs \in Seq(BOOLEAN)
      /\ StandsIn(receipt, tree, envs, touched)
    BY DEF RelInv, RelShape, RelReceipt
<1> QED
    BY <1>1, <1>3, <1>4, <1>5, <1>6, EarlyStep

LEMMA InstallOrUpdateStep ==
    ASSUME RelInv, NEW o \in Options, NEW r \in Release, Releases!InstallOrUpdate(o, r) PROVE RelInv'
<1> DEFINE pc == IF receipt.active = r \/ o.dry THEN "excel" ELSE "promote"
<1>1. /\ Releases!Command /\ o.op \in {"install", "update"} /\ Releases!Launch(o, pc, r, Releases!None)
      /\ receipt.installed /\ receipt.active = r => Releases!ValidActive
    BY DEF Releases!InstallOrUpdate
<1>2. r # Releases!None /\ Releases!None \in 0 .. Len(envs) /\ r \in Targets
    BY ShapeFacts DEF Targets
<1>3. receipt.active = r => tree[r] = "whole"
    BY <1>1, <1>2, ShapeFacts DEF Releases!ValidActive
<1>4. SoundIn(Releases!None, envs)
    BY DEF SoundIn
<1>5. pc \in Early /\ pc # "plan" /\ pc # "materialise"
      /\ (pc \in {"excel", "plan"} /\ ~o.dry => receipt.active = r)
    BY DEF Early
<1> HIDE DEF pc
<1> QED
    BY <1>1, <1>2, <1>3, <1>4, <1>5, Launches

LEMMA RollbackStep ==
    ASSUME RelInv, NEW o \in Options, NEW r \in Release, Releases!Rollback(o, r) PROVE RelInv'
<1>1. /\ Releases!Command /\ o.op = "rollback" /\ Releases!Launch(o, "plan", r, receipt.env[r])
      /\ tree[r] = "whole" /\ SoundIn(receipt.env[r], envs)
    BY SameSound DEF Releases!Rollback, Releases!Restorable
<1>2. r # Releases!None /\ receipt.env[r] \in 0 .. Len(envs) /\ r \in Targets /\ "plan" \in Early
    BY ShapeFacts DEF Targets, Early
<1> QED
    BY <1>1, <1>2, Launches

LEMMA UninstallStep ==
    ASSUME RelInv, NEW o \in Options, Releases!Uninstall(o) PROVE RelInv'
<1>1. /\ Releases!Command /\ o.op = "uninstall" /\ receipt.installed
      /\ Releases!Launch(o, "plan", Releases!None, Releases!None)
    BY DEF Releases!Uninstall
<1>2. Releases!None \in 0 .. Len(envs) /\ Releases!None \in Targets /\ "plan" \in Early
    BY ShapeFacts DEF Targets, Early
<1>3. SoundIn(Releases!None, envs)
    BY DEF SoundIn
<1> QED
    BY <1>1, <1>2, <1>3, Launches

\* A command that has not planned yet.
LEMMA Working ==
    ASSUME RelInv, run.pc \in Early
    PROVE  /\ run \in EarlyRuns /\ pending = Releases!NoJournal
           /\ Prepared(run, receipt.installed, tree, envs, touched)
           /\ run.pc # "plan" => run.target \in Release /\ run.target # Releases!None
           /\ \A pc \in Early : [run EXCEPT !.pc = pc] =
                  [pc |-> pc, o |-> run.o, target |-> run.target, env |-> run.env]
<1>1. run \in EarlyRuns /\ pending = Releases!NoJournal /\ Prepared(run, receipt.installed, tree, envs, touched)
    BY Pcs DEF RelInv, RelShape, RelCommand, EarlyRuns
<1>2. run.pc # "plan" => run.target \in Release /\ run.target # Releases!None
    BY <1>1 DEF Prepared, EarlyRuns, Targets
<1>3. run = [pc |-> run.pc, o |-> run.o, target |-> run.target, env |-> run.env]
    BY <1>1 DEF EarlyRuns
<1>4. \A pc \in Early : [run EXCEPT !.pc = pc] =
          [pc |-> pc, o |-> run.o, target |-> run.target, env |-> run.env]
    BY <1>3
<1> QED
    BY <1>1, <1>2, <1>4

\* The generations a receipt names are not the directory that is being made.
LEMMA TreeStep ==
    ASSUME RelInv, NEW t \in Release, NEW state \in {"absent", "partial", "whole"},
           state = "whole" \/ tree[t] # "whole"
    PROVE  /\ [tree EXCEPT ![t] = state] \in [Release -> {"absent", "partial", "whole", "drifted"}]
           /\ StandsIn(receipt, [tree EXCEPT ![t] = state], envs, touched)
<1>1. tree \in [Release -> {"absent", "partial", "whole", "drifted"}] /\ StandsIn(receipt, tree, envs, touched)
    BY DEF RelInv, RelShape, RelReceipt
<1>2. GensOf(receipt) \subseteq Release
    BY ShapeFacts
<1> QED
    BY <1>1, <1>2 DEF StandsIn

LEMMA ReserveStep == ASSUME RelInv, Releases!Reserve PROVE RelInv'
<1>1. /\ run.pc = "promote" /\ tree[run.target] = "absent"
      /\ tree' = [tree EXCEPT ![run.target] = "partial"] /\ run' = [run EXCEPT !.pc = "materialise"]
      /\ UNCHANGED <<receipt, envs, live, pending, moved, touched>>
    BY DEF Releases!Reserve, Releases!At, Releases!Goes
<1>2. run.pc \in Early /\ "materialise" \in Early
    BY <1>1 DEF Early
<1>3. run' = [pc |-> "materialise", o |-> run.o, target |-> run.target, env |-> run.env]
    BY <1>1, <1>2, Working
<1>4. tree' \in [Release -> {"absent", "partial", "whole", "drifted"}] /\ StandsIn(receipt, tree', envs, touched)
    BY <1>1, <1>2, Working, TreeStep
<1>5. run' \in EarlyRuns
    BY <1>2, <1>3, Working DEF EarlyRuns
<1>6. tree'[run.target] = "partial"
    BY <1>1, <1>2, Working DEF RelInv, RelShape
<1>7. Prepared(run', receipt.installed, tree', envs', touched)
    BY <1>1, <1>2, <1>3, <1>6, Working DEF Prepared
<1>8. pending = Releases!NoJournal /\ envs' \in Seq(BOOLEAN) /\ Len(envs') \in Nat /\ Len(envs') >= Len(envs)
    BY <1>1, <1>2, Working, ShapeFacts DEF RelInv, RelShape
<1> QED
    BY <1>1, <1>4, <1>5, <1>7, <1>8, EarlyStep

LEMMA ReuseStep == ASSUME RelInv, Releases!Reuse PROVE RelInv'
<1>1. /\ run.pc = "promote" /\ UNCHANGED <<receipt, tree, envs, live, pending, moved, touched>>
      /\ IF tree[run.target] = "whole" THEN run' = [run EXCEPT !.pc = "excel"] ELSE run' = Releases!Idle
    BY DEF Releases!Reuse, Releases!At, Releases!Goes, Releases!Ends
<1>2. run.pc \in Early /\ "excel" \in Early
    BY <1>1 DEF Early
<1>3. CASE tree[run.target] # "whole"
    BY <1>1, <1>3, EndStep
<1>4. CASE tree[run.target] = "whole"
    <2>1. run' = [pc |-> "excel", o |-> run.o, target |-> run.target, env |-> run.env]
        BY <1>1, <1>2, <1>4, Working
    <2>2. run' \in EarlyRuns
        BY <1>2, <2>1, Working DEF EarlyRuns
    <2>3. Prepared(run', receipt.installed, tree', envs', touched)
        BY <1>1, <1>2, <1>4, <2>1, Working DEF Prepared
    <2>4. pending = Releases!NoJournal /\ Len(envs) \in Nat
        BY <1>2, Working, ShapeFacts
    <2>5. /\ tree \in [Release -> {"absent", "partial", "whole", "drifted"}] /\ envs \in Seq(BOOLEAN)
          /\ StandsIn(receipt, tree, envs, touched)
        BY DEF RelInv, RelShape, RelReceipt
    <2> QED
        BY <1>1, <2>2, <2>3, <2>4, <2>5, EarlyStep
<1> QED
    BY <1>3, <1>4

LEMMA MaterialiseStep == ASSUME RelInv, Releases!Materialise PROVE RelInv'
<1>1. /\ run.pc = "materialise" /\ run' = [run EXCEPT !.pc = "excel"]
      /\ tree' = [tree EXCEPT ![run.target] = "whole"]
      /\ UNCHANGED <<receipt, envs, live, pending, moved, touched>>
    BY DEF Releases!Materialise, Releases!At, Releases!Goes
<1>2. run.pc \in Early /\ "excel" \in Early
    BY <1>1 DEF Early
<1>3. run' = [pc |-> "excel", o |-> run.o, target |-> run.target, env |-> run.env]
    BY <1>1, <1>2, Working
<1>4. tree' \in [Release -> {"absent", "partial", "whole", "drifted"}] /\ StandsIn(receipt, tree', envs, touched)
    BY <1>1, <1>2, Working, TreeStep
<1>5. run' \in EarlyRuns
    BY <1>2, <1>3, Working DEF EarlyRuns
<1>6. tree'[run.target] = "whole"
    BY <1>1, <1>2, Working DEF RelInv, RelShape
<1>7. Prepared(run', receipt.installed, tree', envs', touched)
    BY <1>1, <1>2, <1>3, <1>6, Working DEF Prepared
<1>8. pending = Releases!NoJournal /\ envs' \in Seq(BOOLEAN) /\ Len(envs') \in Nat /\ Len(envs') >= Len(envs)
    BY <1>1, <1>2, Working, ShapeFacts DEF RelInv, RelShape
<1> QED
    BY <1>1, <1>4, <1>5, <1>7, <1>8, EarlyStep

LEMMA MaterialiseFailsStep == ASSUME RelInv, Releases!MaterialiseFails PROVE RelInv'
<1>1. /\ run.pc = "materialise" /\ run' = Releases!Idle
      /\ UNCHANGED <<receipt, envs, live, pending, moved, touched>>
    BY DEF Releases!MaterialiseFails, Releases!At, Releases!Ends
<1>2. PICK left \in {"absent", "partial"} : tree' = [tree EXCEPT ![run.target] = left]
    BY DEF Releases!MaterialiseFails
<1>3. run.pc \in Early
    BY <1>1 DEF Early
<1>4. tree[run.target] = "partial" /\ run.target \in Release
    BY <1>1, <1>3, Working DEF Prepared
<1>5. tree' \in [Release -> {"absent", "partial", "whole", "drifted"}] /\ StandsIn(receipt, tree', envs, touched)
    BY <1>2, <1>4, TreeStep
<1>6. pending = Releases!NoJournal /\ envs' \in Seq(BOOLEAN) /\ Len(envs') \in Nat /\ Len(envs') >= Len(envs)
    BY <1>1, <1>3, Working, ShapeFacts DEF RelInv, RelShape
<1> QED
    BY <1>1, <1>5, <1>6, EarlyStep

\* One more environment leaves the others as they were.
LEMMA EnvsStep ==
    ASSUME RelInv, NEW built \in BOOLEAN
    PROVE  /\ Append(envs, built) \in Seq(BOOLEAN) /\ Len(Append(envs, built)) = Len(envs) + 1
           /\ Append(envs, built)[Len(envs) + 1] = built
           /\ StandsIn(receipt, tree, Append(envs, built), touched)
<1> DEFINE more == Append(envs, built)
<1>1. envs \in Seq(BOOLEAN) /\ StandsIn(receipt, tree, envs, touched)
    BY DEF RelInv, RelShape, RelReceipt
<1>2. /\ more \in Seq(BOOLEAN) /\ Len(more) = Len(envs) + 1 /\ more[Len(envs) + 1] = built
      /\ \A i \in 1 .. Len(envs) : more[i] = envs[i]
    BY <1>1, AppendProperties
<1> HIDE DEF more
<1>3. /\ \A g \in GensOf(receipt) : receipt.env[g] \in 0 .. Len(envs)
      /\ Releases!None = 0 /\ Len(envs) \in Nat
    BY ShapeFacts
<1>4. \A g \in GensOf(receipt) : SoundIn(receipt.env[g], envs) => SoundIn(receipt.env[g], more)
    <2> SUFFICES ASSUME NEW g \in GensOf(receipt), SoundIn(receipt.env[g], envs), receipt.env[g] # Releases!None
                 PROVE  more[receipt.env[g]]
        BY DEF SoundIn
    <2>1. receipt.env[g] \in 1 .. Len(envs)
        BY <1>3
    <2> QED
        BY <1>2, <2>1 DEF SoundIn
<1>5. StandsIn(receipt, tree, more, touched)
    BY <1>1, <1>4 DEF StandsIn
<1> QED
    BY <1>2, <1>5 DEF more

LEMMA PrepareStep == ASSUME RelInv, Releases!Prepare PROVE RelInv'
<1>1. run.pc = "excel" /\ UNCHANGED <<receipt, tree, live, pending, moved, touched>>
    BY DEF Releases!Prepare, Releases!At
<1>2. run.pc \in Early /\ "plan" \in Early
    BY <1>1 DEF Early
<1>3. /\ run \in EarlyRuns /\ pending = Releases!NoJournal
      /\ Prepared(run, receipt.installed, tree, envs, touched)
      /\ run.target \in Release /\ run.target # Releases!None
      /\ run = [pc |-> "excel", o |-> run.o, target |-> run.target, env |-> run.env]
    <2>1. [run EXCEPT !.pc = "excel"] = run
        BY <1>1, <1>2, Working DEF EarlyRuns
    <2> QED
        BY <1>1, <1>2, <2>1, Working DEF Early
<1>4. /\ tree \in [Release -> {"absent", "partial", "whole", "drifted"}] /\ envs \in Seq(BOOLEAN)
      /\ StandsIn(receipt, tree, envs, touched) /\ Len(envs) \in Nat
    BY ShapeFacts DEF RelInv, RelShape, RelReceipt
\* What the command plans with, whichever environment it has.
<1>5. ASSUME NEW env \in 0 .. Len(envs'), run' = [pc |-> "plan", o |-> run.o, target |-> run.target, env |-> env],
             "env" \notin touched => SoundIn(env, envs'), Len(envs') \in Nat
      PROVE  run' \in EarlyRuns /\ Prepared(run', receipt.installed, tree', envs', touched)
    <2>1. run' \in EarlyRuns
        BY <1>2, <1>3, <1>5 DEF EarlyRuns
    <2>2. Prepared(run', receipt.installed, tree', envs', touched)
        BY <1>1, <1>3, <1>5 DEF Prepared
    <2> QED
        BY <2>1, <2>2
<1>6. CASE run' = [run EXCEPT !.pc = "plan"] /\ UNCHANGED envs
    <2>1. run' = [pc |-> "plan", o |-> run.o, target |-> run.target, env |-> run.env]
        BY <1>2, <1>6, Working
    <2>2. run.env \in 0 .. Len(envs) /\ ("env" \notin touched => SoundIn(run.env, envs))
        BY <1>3 DEF Prepared
    <2>3. run' \in EarlyRuns /\ Prepared(run', receipt.installed, tree', envs', touched)
        BY <1>4, <1>5, <1>6, <2>1, <2>2
    <2> QED
        BY <1>1, <1>3, <1>4, <1>6, <2>3, EarlyStep
<1>7. CASE Releases!Preserved /\ run' = [run EXCEPT !.pc = "plan", !.env = Releases!Prior] /\ UNCHANGED envs
    <2>1. run' = [pc |-> "plan", o |-> run.o, target |-> run.target, env |-> Releases!Prior]
        BY <1>3, <1>7
    <2>2. "env" \notin touched => SoundIn(Releases!Prior, envs)
        BY <1>4, ShapeFacts DEF StandsIn, EntryOf, SoundIn
    <2>3. Releases!Prior \in 0 .. Len(envs)
        BY ShapeFacts
    <2>4. run' \in EarlyRuns /\ Prepared(run', receipt.installed, tree', envs', touched)
        BY <1>4, <1>5, <1>7, <2>1, <2>2, <2>3
    <2> QED
        BY <1>1, <1>3, <1>4, <1>7, <2>4, EarlyStep
<1>8. CASE envs' = Append(envs, TRUE) /\ run' = [run EXCEPT !.pc = "plan", !.env = Len(envs) + 1]
    <2>1. run' = [pc |-> "plan", o |-> run.o, target |-> run.target, env |-> Len(envs) + 1]
        BY <1>3, <1>8
    <2>2. /\ envs' \in Seq(BOOLEAN) /\ Len(envs') = Len(envs) + 1 /\ envs'[Len(envs) + 1] = TRUE
          /\ StandsIn(receipt, tree, envs', touched)
        BY <1>8, EnvsStep
    <2>3. SoundIn(Len(envs) + 1, envs') /\ Len(envs) + 1 \in 0 .. Len(envs')
        BY <1>4, <2>2 DEF SoundIn
    <2>4. Len(envs') \in Nat
        BY <1>4, <2>2
    <2>5. run' \in EarlyRuns /\ Prepared(run', receipt.installed, tree', envs', touched)
        BY <1>5, <2>1, <2>3, <2>4
    <2> QED
        BY <1>1, <1>3, <1>4, <2>2, <2>4, <2>5, EarlyStep
<1>9. CASE envs' = Append(envs, FALSE) /\ run' = Releases!Idle
    <2>1. /\ envs' \in Seq(BOOLEAN) /\ Len(envs') = Len(envs) + 1
          /\ StandsIn(receipt, tree, envs', touched)
        BY <1>9, EnvsStep
    <2> QED
        BY <1>1, <1>3, <1>4, <1>9, <2>1, EarlyStep
<1>10. CASE run' = Releases!Idle /\ UNCHANGED envs
    BY <1>1, <1>10, EndStep
<1> QED
    BY <1>6, <1>7, <1>8, <1>9, <1>10 DEF Releases!Prepare, Releases!Ends

-----------------------------------------------------------------------------
(* The release manager: its plans.                                         *)

\* The bytes and the ownership of the agent after any command.
LEMMA AgentIs ==
    ASSUME RelInv, NEW o \in Options, NEW t \in Targets, t = Releases!None => o.op = "uninstall",
           NEW a, a = Releases!AgentAfter(o, t)
    PROVE  /\ a.agent \in Releases!Bytes /\ a.owned \in Owned
           /\ IF a.owned = "missing" THEN a.agent = "none"
              ELSE a.owned \notin {"nobody", "custom"} => a.agent = a.owned
           /\ a.agent # live.agent => live.agent = "none" \/ HasIt(live, receipt) \/ o.policy = "force"
<1>1. live.agent \in Releases!Bytes
    BY DEF RelInv, RelShape, FilesOf
<1>2. "none" \in Releases!Bytes /\ "custom" \in Releases!Bytes
    BY DEF Releases!Bytes
<1>3. Releases!Mine = HasIt(live, receipt)
    BY DEF Releases!Mine, HasIt
<1>4. CASE o.op = "uninstall"
    BY <1>1, <1>2, <1>3, <1>4 DEF Releases!AgentAfter, Releases!Kept, Owned, HasIt
<1>5. CASE o.op # "uninstall"
    <2>1. t \in Release
        BY <1>5 DEF Targets
    <2>2. Bundle[t] \in Releases!Bytes /\ Bundle[t] \notin {"none", "custom", "nobody", "missing"}
        BY <2>1, ReleaseAssumption DEF Releases!Bytes
    <2>3. CASE live.agent = Bundle[t]
        BY <1>1, <1>2, <1>5, <2>2, <2>3 DEF Releases!AgentAfter, Releases!Kept, Owned
    <2>4. CASE live.agent # Bundle[t] /\ Releases!MayUpdate(o)
        BY <1>1, <1>3, <1>5, <2>2, <2>4 DEF Releases!AgentAfter, Releases!MayUpdate, Owned
    <2>5. CASE live.agent # Bundle[t] /\ ~Releases!MayUpdate(o)
        BY <1>1, <1>2, <1>5, <2>2, <2>5 DEF Releases!AgentAfter, Releases!Kept, Owned
    <2> QED
        BY <2>3, <2>4, <2>5
<1> QED
    BY <1>4, <1>5

\* The receipt that a command plans.
LEMMA ReceiptIs ==
    ASSUME RelInv, NEW o \in Options, NEW t \in Targets, NEW env \in 0 .. Len(envs), NEW owned \in Owned,
           IF t = Releases!None THEN o.op = "uninstall" /\ receipt.installed ELSE o.op # "uninstall",
           t # Releases!None /\ "tree" \notin touched => tree[t] = "whole",
           t = Releases!None => env = Releases!None,
           "env" \notin touched => SoundIn(env, envs),
           NEW r, r = Releases!Planned(o, t, env, owned)
    PROVE  /\ r \in Receipts /\ r.exists /\ r.owned = owned
           /\ Recorded(r, Len(envs)) /\ StandsIn(r, tree, envs, touched)
           /\ EntryOf(r) = env /\ r.active = t /\ r.installed = (t # Releases!None)
           /\ GensOf(r) \subseteq GensOf(receipt) \cup (IF t = Releases!None THEN {} ELSE {t})
<1>1. /\ receipt \in Receipts /\ Recorded(receipt, Len(envs)) /\ StandsIn(receipt, tree, envs, touched)
      /\ Len(envs) \in Nat
    BY ShapeFacts DEF RelInv, RelShape, RelReceipt
<1>2. CASE t = Releases!None
    <2>1. r = [receipt EXCEPT !.installed = FALSE, !.active = Releases!None, !.owned = owned, !.pending = TRUE]
        BY <1>2 DEF Releases!Planned
    <2>2. /\ receipt = [exists |-> receipt.exists, installed |-> receipt.installed, active |-> receipt.active,
                        gens |-> receipt.gens, env |-> receipt.env, owned |-> receipt.owned,
                        pending |-> receipt.pending]
          /\ receipt.gens \in Seq(Release) /\ receipt.env \in [Release -> Nat] /\ receipt.exists = TRUE
        BY <1>1, <1>2, ShapeFacts DEF Receipts
    <2>3. r = [exists |-> TRUE, installed |-> FALSE, active |-> Releases!None, gens |-> receipt.gens,
               env |-> receipt.env, owned |-> owned, pending |-> TRUE]
        BY <2>1, <2>2
    <2>4. r \in Receipts
        BY <2>2, <2>3 DEF Receipts, Targets
    <2>5. GensOf(r) = GensOf(receipt)
        BY <2>3 DEF GensOf
    <2>6. Recorded(r, Len(envs)) /\ StandsIn(r, tree, envs, touched)
        BY <1>1, <2>3, <2>5 DEF Recorded, StandsIn
    <2>7. r.exists /\ r.owned = owned /\ r.active = t /\ r.installed = FALSE
        BY <1>2, <2>3
    <2>8. r.installed = (t # Releases!None) /\ EntryOf(r) = env
        BY <1>2, <2>7 DEF EntryOf
    <2> QED
        BY <1>2, <2>4, <2>5, <2>6, <2>7, <2>8
<1>3. CASE t # Releases!None
    <2> DEFINE kept == Releases!Retained(t)
    <2>1. t \in Release
        BY <1>3 DEF Targets
    <2>2. r = [exists |-> TRUE, installed |-> TRUE, active |-> t, gens |-> kept,
               env |-> [receipt.env EXCEPT ![t] = env], owned |-> owned, pending |-> TRUE]
        BY <1>3 DEF Releases!Planned
    <2>3. /\ kept \in Seq(Release)
          /\ {kept[i] : i \in DOMAIN kept} \subseteq GensOf(receipt) \cup {t}
          /\ t \in {kept[i] : i \in DOMAIN kept}
        BY <1>1, <2>1, RetainedAre
    <2> HIDE DEF kept
    <2>4. GensOf(r) = {kept[i] : i \in DOMAIN kept}
        BY <2>2 DEF GensOf
    <2>5. receipt.env \in [Release -> Nat] /\ env \in Nat
        BY <1>1, ShapeFacts
    <2>6. r.env = [receipt.env EXCEPT ![t] = env] /\ r.env \in [Release -> Nat]
        BY <2>1, <2>2, <2>5
    <2>7. r \in Receipts
        BY <2>1, <2>2, <2>3, <2>6 DEF Receipts, Targets
    <2>8. r.env[t] = env /\ \A g \in Release \ {t} : r.env[g] = receipt.env[g]
        BY <2>1, <2>5, <2>6
    <2>9. r.exists /\ r.owned = owned /\ r.active = t /\ r.installed = TRUE
        BY <2>2
    <2>10. r.installed = (t # Releases!None) /\ EntryOf(r) = env
        BY <1>3, <2>8, <2>9 DEF EntryOf
    <2>11. \A g \in Release : r.env[g] \in 0 .. Len(envs)
        BY <1>1, <2>8 DEF Recorded
    <2>12. Recorded(r, Len(envs))
        BY <2>3, <2>4, <2>9, <2>11 DEF Recorded
    <2>13. GensOf(receipt) \subseteq Release
        BY ShapeFacts
    <2>14. StandsIn(r, tree, envs, touched)
        <3> SUFFICES ASSUME NEW g \in GensOf(r)
                     PROVE  /\ "tree" \notin touched => tree[g] = "whole"
                            /\ "env" \notin touched => SoundIn(r.env[g], envs)
            BY DEF StandsIn
        <3>1. CASE g = t
            BY <1>3, <2>8, <3>1
        <3>2. CASE g # t
            <4>1. g \in GensOf(receipt) /\ g \in Release \ {t}
                BY <2>3, <2>4, <2>13, <3>2
            <4> QED
                BY <1>1, <2>8, <4>1 DEF StandsIn
        <3> QED
            BY <3>1, <3>2
    <2> QED
        BY <1>3, <2>3, <2>4, <2>7, <2>12, <2>14, <2>9, <2>10
<1> QED
    BY <1>2, <1>3

\* What a command leaves of the plugins in a config.
LEMMA RegisteredIs ==
    ASSUME RelInv, NEW plugins \in SUBSET Plugins, NEW o \in Options, NEW t \in Targets,
           NEW r, r.active = t, r.installed = (t # Releases!None),
           GensOf(r) \subseteq GensOf(receipt) \cup (IF t = Releases!None THEN {} ELSE {t})
    PROVE  /\ Releases!Registered(plugins, o, t) \in SUBSET Plugins
           /\ Registers(Releases!Registered(plugins, o, t), r)
<1>1. Releases!None \notin Plugins /\ Releases!Gens = GensOf(receipt)
    BY ShapeFacts DEF Plugins, Releases!Source
<1>2. CASE t = Releases!None
    BY <1>1, <1>2 DEF Releases!Registered, Releases!Known, Registers
<1>3. CASE t # Releases!None
    <2>1. t \in Release
        BY <1>3 DEF Targets
    <2> QED
        BY <1>1, <1>3, <2>1 DEF Releases!Registered, Releases!Known, Registers, Plugins
<1> QED
    BY <1>2, <1>3

\* What a command leaves of the mcp entry.
LEMMA EntryIs ==
    ASSUME RelInv, pending = Releases!NoJournal, NEW env \in 0 .. Len(envs), NEW r, EntryOf(r) = env,
           NEW mcp, mcp = Releases!EntryAfter(env), Releases!EntryAllows(env)
    PROVE  /\ mcp \in Int
           /\ IF EntryOf(r) # Releases!None THEN mcp = EntryOf(r)
              ELSE mcp \in {Releases!None, Releases!Custom}
           /\ mcp # live.mcp => live.mcp \in {Releases!None, EntryOf(receipt)}
<1>1. /\ live.mcp \in Int /\ Follows(live, receipt) /\ Releases!Prior = EntryOf(receipt)
      /\ Releases!None = 0 /\ Len(envs) \in Nat
    BY ShapeFacts DEF RelInv, RelShape, FilesOf, RelQuiet, Told
<1> QED
    BY <1>1 DEF Releases!EntryAfter, Releases!EntryAllows, Follows

LEMMA PlanStep == ASSUME RelInv, Releases!Plan PROVE RelInv'
<1> DEFINE o == run.o
           t == run.target
           env == run.env
           agent == Releases!AgentAfter(o, t)
           after == [server |-> Releases!Registered(live.server, o, t),
                     tui |-> Releases!Registered(live.tui, o, t),
                     mcp |-> Releases!EntryAfter(env), agent |-> agent.agent]
           next == Releases!Planned(o, t, env, agent.owned)
<1>1. /\ run.pc = "plan" /\ moved' = {} /\ UNCHANGED <<receipt, tree, envs, live, pending, touched>>
      /\ \/ /\ ~o.dry /\ Releases!EntryAllows(env)
            /\ run' = [pc |-> "commit", o |-> o, before |-> live, after |-> after, receipt |-> next]
         \/ run' = Releases!Idle
    BY DEF Releases!Plan, Releases!At, Releases!Ends
<1>2. run.pc \in Early
    BY <1>1 DEF Early
<1>3. /\ o \in Options /\ t \in Targets /\ env \in 0 .. Len(envs) /\ pending = Releases!NoJournal
      /\ IF t = Releases!None THEN o.op = "uninstall" /\ receipt.installed ELSE o.op # "uninstall"
      /\ ~o.dry /\ t # Releases!None /\ "tree" \notin touched => tree[t] = "whole"
      /\ "env" \notin touched => SoundIn(env, envs)
    BY <1>1, <1>2, Working DEF EarlyRuns, Prepared
<1>4. /\ receipt \in Receipts /\ live \in FilesOf /\ StandsIn(receipt, tree, envs, touched)
      /\ tree \in [Release -> {"absent", "partial", "whole", "drifted"}] /\ envs \in Seq(BOOLEAN)
      /\ Len(envs) \in Nat
    BY ShapeFacts DEF RelInv, RelShape, RelReceipt
<1>5. CASE run' = Releases!Idle
    BY <1>1, <1>3, <1>4, <1>5, EarlyStep
<1>6. CASE /\ ~o.dry /\ Releases!EntryAllows(env)
           /\ run' = [pc |-> "commit", o |-> o, before |-> live, after |-> after, receipt |-> next]
    <2>1. t = Releases!None => env = Releases!None
        BY <1>1, <1>2, Working DEF Prepared
    <2>2. PICK a : a = agent
        OBVIOUS
    <2>3. /\ a.agent \in Releases!Bytes /\ a.owned \in Owned
          /\ IF a.owned = "missing" THEN a.agent = "none"
             ELSE a.owned \notin {"nobody", "custom"} => a.agent = a.owned
          /\ a.agent # live.agent => live.agent = "none" \/ HasIt(live, receipt) \/ o.policy = "force"
        BY <1>3, <2>2, AgentIs
    <2>4. PICK r : r = next
        OBVIOUS
    <2>5. r = Releases!Planned(o, t, env, a.owned)
        BY <2>2, <2>4
    <2>6. /\ r \in Receipts /\ r.exists /\ r.owned = a.owned
          /\ Recorded(r, Len(envs)) /\ StandsIn(r, tree, envs, touched)
          /\ EntryOf(r) = env /\ r.active = t /\ r.installed = (t # Releases!None)
          /\ GensOf(r) \subseteq GensOf(receipt) \cup (IF t = Releases!None THEN {} ELSE {t})
        BY <1>3, <1>6, <2>1, <2>3, <2>5, ReceiptIs
    <2>7. PICK server, tui, mcp :
              server = Releases!Registered(live.server, o, t) /\ tui = Releases!Registered(live.tui, o, t)
              /\ mcp = Releases!EntryAfter(env)
        OBVIOUS
    <2>8. /\ server \in SUBSET Plugins /\ Registers(server, r)
          /\ tui \in SUBSET Plugins /\ Registers(tui, r)
        <3>1. live.server \in SUBSET Plugins /\ live.tui \in SUBSET Plugins
            BY <1>4 DEF FilesOf
        <3> QED
            BY <1>3, <2>6, <2>7, <3>1, RegisteredIs
    <2>9. /\ mcp \in Int
          /\ IF EntryOf(r) # Releases!None THEN mcp = EntryOf(r)
             ELSE mcp \in {Releases!None, Releases!Custom}
          /\ mcp # live.mcp => live.mcp \in {Releases!None, EntryOf(receipt)}
        BY <1>3, <1>6, <2>6, <2>7, EntryIs
    <2>10. PICK m : m = [server |-> server, tui |-> tui, mcp |-> mcp, agent |-> a.agent]
        OBVIOUS
    <2>11. run' = [pc |-> "commit", o |-> o, before |-> live, after |-> m, receipt |-> r]
        BY <1>6, <2>2, <2>4, <2>7, <2>10
    <2>12. m \in FilesOf
        BY <2>3, <2>8, <2>9, <2>10 DEF FilesOf
    <2>13. Accords(m, r, {})
        BY <2>3, <2>6, <2>8, <2>9, <2>10 DEF Accords, HasIt
    <2> HIDE DEF o, t, env, agent, after, next
    <2>14. run' \in Plans(Late) /\ run'.pc = "commit"
        BY <1>3, <1>4, <2>6, <2>11, <2>12 DEF Plans, Late
    <2>15. GoodPlan(run', tree', envs', touched')
        BY <1>1, <2>6, <2>11, <2>13 DEF GoodPlan
    <2>16. Takes(run', receipt)
        BY <2>3, <2>9, <2>10, <2>11 DEF Takes, HasIt
    <2>17. Unmoved(live', run'.before, moved')
        BY <1>1, <2>11 DEF Unmoved
    <2>18. RelShape'
        BY <1>1, <2>14 DEF RelInv, RelShape, Runs
    <2>19. RelReceipt' /\ RelQuiet' /\ RelJournal'
        BY <1>1, <1>3 DEF RelInv, RelReceipt, RelQuiet, RelJournal
    <2>20. RelCommand'
        BY <1>1, <1>3, <2>14, <2>15, <2>16, <2>17 DEF RelCommand, Early
    <2> QED
        BY <2>18, <2>19, <2>20 DEF RelInv
<1> QED
    BY <1>1, <1>5, <1>6

-----------------------------------------------------------------------------
(* The release manager: its transactions.                                  *)

\* A command that has planned, and its journal.
LEMMA Transacting ==
    ASSUME RelInv, run.pc \in Late
    PROVE  /\ run \in Plans(Late) /\ [run EXCEPT !.pc = "open"] \in Plans({"open"})
           /\ \A pc \in Late \cup {"open"} : [run EXCEPT !.pc = pc] =
                  [pc |-> pc, o |-> run.o, before |-> run.before, after |-> run.after, receipt |-> run.receipt]
<1>1. run \in Plans(Late)
    BY Pcs DEF RelInv, RelShape
<1>2. run = [pc |-> run.pc, o |-> run.o, before |-> run.before, after |-> run.after, receipt |-> run.receipt]
    BY <1>1 DEF Plans
<1>3. \A pc \in Late \cup {"open"} : [run EXCEPT !.pc = pc] =
          [pc |-> pc, o |-> run.o, before |-> run.before, after |-> run.after, receipt |-> run.receipt]
    BY <1>2
<1>4. [run EXCEPT !.pc = "open"] \in Plans({"open"})
    BY <1>1, <1>3 DEF Plans
<1> QED
    BY <1>1, <1>3, <1>4

\* Files none of which was written to since are those of the plan.
LEMMA UnmovedSame ==
    ASSUME NEW l \in FilesOf, NEW m \in FilesOf, Unmoved(l, m, {})
    PROVE  l = m
<1>1. /\ l = [server |-> l.server, tui |-> l.tui, mcp |-> l.mcp, agent |-> l.agent]
      /\ m = [server |-> m.server, tui |-> m.tui, mcp |-> m.mcp, agent |-> m.agent]
    BY DEF FilesOf
<1>2. l.server = m.server /\ l.tui = m.tui /\ l.mcp = m.mcp /\ l.agent = m.agent
    BY DEF Unmoved
<1> QED
    BY <1>1, <1>2

LEMMA CommitStep ==
    ASSUME RelInv, Releases!Commit
    PROVE  RelInv' /\ (run'.pc = "receipt" =>
                          live' = run.after /\ live = run.before /\ Takes(run, receipt))
<1>1. run.pc = "commit" /\ UNCHANGED <<receipt, tree, envs, moved, touched>>
    BY DEF Releases!Commit, Releases!At
<1>2. /\ run \in Plans(Late) /\ [run EXCEPT !.pc = "open"] \in Plans({"open"})
      /\ \A pc \in Late \cup {"open"} : [run EXCEPT !.pc = pc] =
             [pc |-> pc, o |-> run.o, before |-> run.before, after |-> run.after, receipt |-> run.receipt]
    BY <1>1, Transacting DEF Late
<1>3. /\ pending = Releases!NoJournal /\ GoodPlan(run, tree, envs, touched) /\ Takes(run, receipt)
      /\ Unmoved(live, run.before, moved) /\ live \in FilesOf
      /\ Told(live, receipt, touched)
    BY <1>1 DEF RelInv, RelShape, RelCommand, RelQuiet
<1>4. CASE moved # {}
    <2>1. run' = Releases!Idle /\ UNCHANGED <<live, pending>>
        BY <1>4 DEF Releases!Commit, Releases!Undisturbed, Releases!Ends
    <2> QED
        BY <1>1, <2>1, EndStep DEF Releases!Idle
<1>5. CASE moved = {}
    <2>1. live' = run.after /\ pending' = [run EXCEPT !.pc = "open"] /\ run' = [run EXCEPT !.pc = "receipt"]
        BY <1>5 DEF Releases!Commit, Releases!Undisturbed, Releases!Goes
    <2>2. /\ pending' = [pc |-> "open", o |-> run.o, before |-> run.before, after |-> run.after,
                         receipt |-> run.receipt]
          /\ run' = [pc |-> "receipt", o |-> run.o, before |-> run.before, after |-> run.after,
                     receipt |-> run.receipt]
        BY <1>2, <2>1 DEF Late
    <2>3. live = run.before /\ run.after \in FilesOf
        <3>1. run.before \in FilesOf /\ run.after \in FilesOf
            BY <1>2 DEF Plans
        <3> QED
            BY <1>3, <1>5, <3>1, UnmovedSame
    <2>4. pending' \in Plans({"open"}) /\ run' \in Plans(Late)
        BY <1>2, <2>1, <2>2 DEF Plans, Late
    <2>5. RelShape'
        BY <1>1, <2>1, <2>3, <2>4 DEF RelInv, RelShape, Runs, Journals
    <2>6. RelReceipt'
        BY <1>1 DEF RelInv, RelReceipt
    <2>7. pending' # Releases!NoJournal
        BY <2>2 DEF Releases!NoJournal
    <2>8. GoodPlan(pending', tree', envs', touched')
        BY <1>1, <1>3, <2>2 DEF GoodPlan
    <2>9. Written(live', pending'.after, touched')
        <3>1. live'.mcp \in {Releases!None, Releases!Custom, pending'.after.mcp}
            BY <2>1, <2>2
        <3> QED
            BY <2>1, <2>2, <3>1 DEF Written
    <2>10. Unmoved(live', pending'.after, moved')
        BY <2>1, <2>2 DEF Unmoved
    <2>11. Told(pending'.before, receipt', touched')
        BY <1>1, <1>3, <2>2, <2>3
    <2>12. RelQuiet' /\ RelJournal'
        BY <2>7, <2>8, <2>9, <2>10, <2>11 DEF RelQuiet, RelJournal
    <2>13. RelCommand'
        <3>1. run'.pc = "receipt"
            BY <2>2
        <3>2. pending' = [run' EXCEPT !.pc = "open"]
            BY <2>2
        <3> QED
            BY <3>1, <3>2 DEF RelCommand, Early
    <2> QED
        BY <1>3, <2>1, <2>3, <2>5, <2>6, <2>12, <2>13 DEF RelInv
<1> QED
    BY <1>4, <1>5

\* The transaction in hand and its journal agree.
LEMMA JournalOfRun ==
    ASSUME RelInv, run.pc \in {"receipt", "forget"}
    PROVE  /\ run \in Plans(Late) /\ pending \in Plans({"open"}) /\ pending # Releases!NoJournal
           /\ pending = [pc |-> "open", o |-> run.o, before |-> run.before, after |-> run.after,
                         receipt |-> run.receipt]
           /\ GoodPlan(pending, tree, envs, touched)
           /\ Unmoved(live, pending.after, moved) /\ Written(live, pending.after, touched)
<1>1. run.pc \in Late
    BY DEF Late
<1>2. pending = [run EXCEPT !.pc = "open"]
    BY DEF RelInv, RelCommand
<1>3. /\ run \in Plans(Late) /\ pending \in Plans({"open"})
      /\ pending = [pc |-> "open", o |-> run.o, before |-> run.before, after |-> run.after,
                    receipt |-> run.receipt]
    BY <1>1, <1>2, Transacting
<1>4. pending # Releases!NoJournal
    BY <1>3 DEF Releases!NoJournal
<1> QED
    BY <1>3, <1>4 DEF RelInv, RelJournal

LEMMA PublishStep == ASSUME RelInv, Releases!Publish PROVE RelInv'
<1>1. /\ run.pc = "receipt" /\ moved = {} /\ receipt' = run.receipt
      /\ touched' = touched \cap {"tree", "env"} /\ run' = [run EXCEPT !.pc = "forget"]
      /\ UNCHANGED <<tree, envs, live, pending, moved>>
    BY DEF Releases!Publish, Releases!At, Releases!Undisturbed, Releases!Goes
<1>2. /\ run \in Plans(Late) /\ pending \in Plans({"open"}) /\ pending # Releases!NoJournal
      /\ pending = [pc |-> "open", o |-> run.o, before |-> run.before, after |-> run.after,
                    receipt |-> run.receipt]
      /\ GoodPlan(pending, tree, envs, touched)
      /\ Unmoved(live, pending.after, moved) /\ Written(live, pending.after, touched)
    BY <1>1, JournalOfRun
<1>3. run' = [pc |-> "forget", o |-> run.o, before |-> run.before, after |-> run.after,
              receipt |-> run.receipt]
    BY <1>1, Transacting DEF Late
<1>4. run.receipt \in Receipts /\ run' \in Plans(Late)
    BY <1>2, <1>3 DEF Plans, Late
<1>5. RelShape'
    BY <1>1, <1>2, <1>4 DEF RelInv, RelShape, Runs, Journals
<1>6. /\ Recorded(run.receipt, Len(envs)) /\ StandsIn(run.receipt, tree, envs, touched)
      /\ run.receipt.exists /\ Accords(run.after, run.receipt, {})
    BY <1>2 DEF GoodPlan
<1>7. StandsIn(run.receipt, tree, envs, touched')
    BY <1>1, <1>6, StandsStill
<1>8. RelReceipt'
    BY <1>1, <1>6, <1>7 DEF RelReceipt
<1>9. RelQuiet'
    BY <1>1, <1>2 DEF RelQuiet
<1>10. RelJournal'
    <2>1. GoodPlan(pending', tree', envs', touched')
        BY <1>1, <1>2, <1>6, <1>7 DEF GoodPlan
    <2>2. Unmoved(live', pending'.after, moved') /\ Written(live', pending'.after, touched')
        BY <1>1, <1>2 DEF Unmoved, Written
    <2>3. run'.pc # "receipt" /\ receipt' = pending'.receipt
        BY <1>1, <1>2, <1>3
    <2> QED
        BY <2>1, <2>2, <2>3 DEF RelJournal
<1>11. RelCommand'
    <2>1. run'.pc = "forget" /\ receipt' = run'.receipt
        BY <1>1, <1>3
    <2>2. pending' = [run' EXCEPT !.pc = "open"]
        <3>1. [run' EXCEPT !.pc = "open"] =
                  [pc |-> "open", o |-> run.o, before |-> run.before, after |-> run.after,
                   receipt |-> run.receipt]
            BY <1>3
        <3> QED
            BY <1>1, <1>2, <3>1
    <2> QED
        BY <2>1, <2>2 DEF RelCommand, Early
<1> QED
    BY <1>5, <1>8, <1>9, <1>10, <1>11 DEF RelInv

\* A transaction that is over leaves files of which its receipt, or the old one, tells.
LEMMA OverStep ==
    ASSUME RelInv, UNCHANGED <<receipt, tree, envs, moved, touched>>, pending' = Releases!NoJournal,
           run' = Releases!Idle, live' \in FilesOf, Told(live', receipt, touched)
    PROVE  RelInv'
<1>1. RelShape' /\ RelReceipt'
    BY DEF RelInv, RelShape, RelReceipt, Runs, Journals
<1>2. RelQuiet' /\ RelJournal'
    BY DEF RelQuiet, RelJournal
<1>3. RelCommand'
    BY DEF RelCommand, Early, Releases!Idle
<1> QED
    BY <1>1, <1>2, <1>3 DEF RelInv

LEMMA UndoStep == ASSUME RelInv, Releases!Undo PROVE RelInv'
<1>1. /\ run.pc = "receipt" /\ run' = Releases!Idle
      /\ UNCHANGED <<receipt, tree, envs, moved, touched>>
    BY DEF Releases!Undo, Releases!At, Releases!Ends
<1>2. /\ pending \in Plans({"open"}) /\ pending # Releases!NoJournal
      /\ Written(live, pending.after, touched)
    BY <1>1, JournalOfRun
<1>3. CASE live' = Releases!TakenBack(pending) /\ pending' = Releases!NoJournal
    <2>1. Told(pending.before, receipt, touched) /\ live \in FilesOf
        BY <1>1, <1>2 DEF RelInv, RelJournal, RelShape
    <2>2. pending \in Plans({"open"} \cup Late)
        BY <1>2 DEF Plans
    <2>3. live' \in FilesOf /\ Told(live', receipt, touched)
        BY <1>2, <1>3, <2>1, <2>2, TakenBackIsTold
    <2> QED
        BY <1>1, <1>3, <2>3, OverStep
<1>4. CASE UNCHANGED <<live, pending>>
    BY <1>1, <1>4, EndStep
<1> QED
    BY <1>3, <1>4 DEF Releases!Undo

LEMMA ForgetStep == ASSUME RelInv, Releases!Forget PROVE RelInv'
<1>1. /\ run.pc = "forget" /\ run' = Releases!Idle /\ pending' = Releases!NoJournal
      /\ UNCHANGED <<receipt, tree, envs, live, moved, touched>>
    BY DEF Releases!Forget, Releases!At, Releases!Ends
<1>2. /\ GoodPlan(pending, tree, envs, touched) /\ pending.receipt = run.receipt
      /\ Written(live, pending.after, touched)
    BY <1>1, JournalOfRun
<1>3. receipt = pending.receipt /\ live \in FilesOf
    BY <1>1, <1>2 DEF RelInv, RelCommand, RelShape
<1>4. Told(live, receipt, touched)
    BY <1>2, <1>3, WrittenIsTold DEF GoodPlan
<1> QED
    BY <1>1, <1>3, <1>4, OverStep

LEMMA RepairStep == ASSUME RelInv, Releases!RepairJournal PROVE RelInv'
<1>1. /\ run.pc = "idle" /\ pending # Releases!NoJournal /\ pending' = Releases!NoJournal
      /\ live' = (IF receipt = pending.receipt THEN live ELSE Releases!TakenBack(pending))
      /\ UNCHANGED <<receipt, tree, envs, run, moved, touched>>
    BY DEF Releases!RepairJournal, Releases!At, Releases!Pending, Releases!Committed
<1>2. run' = Releases!Idle /\ live \in FilesOf /\ pending \in Plans({"open"} \cup Late)
    BY <1>1, Pcs DEF RelInv, RelShape, Journals, Plans
<1>3. /\ GoodPlan(pending, tree, envs, touched) /\ Written(live, pending.after, touched)
      /\ receipt # pending.receipt => Told(pending.before, receipt, touched)
    BY <1>1 DEF RelInv, RelJournal
<1>4. CASE receipt = pending.receipt
    <2>1. Told(live, receipt, touched)
        BY <1>3, <1>4, WrittenIsTold DEF GoodPlan
    <2> QED
        BY <1>1, <1>2, <1>4, <2>1, OverStep
<1>5. CASE receipt # pending.receipt
    <2>1. live' \in FilesOf /\ Told(live', receipt, touched)
        BY <1>1, <1>2, <1>3, <1>5, TakenBackIsTold
    <2> QED
        BY <1>1, <1>2, <2>1, OverStep
<1> QED
    BY <1>4, <1>5

LEMMA AcknowledgeStep == ASSUME RelInv, Releases!Acknowledge PROVE RelInv'
<1>1. /\ run.pc = "idle" /\ pending = Releases!NoJournal /\ receipt' = [receipt EXCEPT !.pending = FALSE]
      /\ UNCHANGED <<tree, envs, live, pending, run, moved, touched>>
    BY DEF Releases!Acknowledge, Releases!At, Releases!Pending
<1>2. receipt \in Receipts
    BY DEF RelInv, RelShape
<1>3. /\ receipt' \in Receipts /\ receipt'.exists = receipt.exists /\ receipt'.installed = receipt.installed
      /\ receipt'.active = receipt.active /\ receipt'.gens = receipt.gens /\ receipt'.env = receipt.env
      /\ receipt'.owned = receipt.owned
    BY <1>1, <1>2 DEF Receipts
<1>4. GensOf(receipt') = GensOf(receipt) /\ EntryOf(receipt') = EntryOf(receipt)
    BY <1>3 DEF GensOf, EntryOf
<1>5. RelShape' /\ RelReceipt'
    BY <1>1, <1>3, <1>4 DEF RelInv, RelShape, RelReceipt, Recorded, StandsIn
<1>6. Told(live, receipt', touched)
    BY <1>1, <1>3, <1>4 DEF RelInv, RelQuiet, Told, Follows, Accords, Registers, HasIt
<1>7. RelQuiet' /\ RelJournal'
    BY <1>1, <1>6 DEF RelQuiet, RelJournal
<1>8. RelCommand'
    BY <1>1 DEF RelCommand, Early
<1> QED
    BY <1>5, <1>7, <1>8 DEF RelInv

-----------------------------------------------------------------------------
(* The release manager: its users.                                         *)

\* What a user changes is marked, and excused, before anything is said of it again.
LEMMA EditStep ==
    ASSUME RelInv, NEW what, NEW file, Releases!Edits(what, file),
           tree' \in [Release -> {"absent", "partial", "whole", "drifted"}],
           envs' \in Seq(BOOLEAN), Len(envs') = Len(envs), live' \in FilesOf,
           "tree" \in touched' \/ tree' = tree, "env" \in touched' \/ envs' = envs,
           \A r \in Release : tree[r] = "partial" => tree'[r] = "partial",
           pending # Releases!NoJournal \/ run.pc = "commit" =>
               \A m \in FilesOf : Unmoved(live, m, moved) => Unmoved(live', m, moved'),
           live'.tui = live.tui, live'.mcp \in {Releases!None, Releases!Custom, live.mcp},
           "server" \in touched' \/ live'.server = live.server,
           "mcp" \in touched' \/ live'.mcp = live.mcp,
           "agent" \in touched' \/ live'.agent = live.agent
    PROVE  RelInv'
<1>1. UNCHANGED <<receipt, pending, run>> /\ touched \subseteq touched'
    BY DEF Releases!Edits
<1>2. \A r : StandsIn(r, tree, envs, touched) => StandsIn(r, tree', envs', touched')
    BY <1>1 DEF StandsIn
<1>3. RelShape'
    BY <1>1 DEF RelInv, RelShape
<1>4. RelReceipt'
    BY <1>1, <1>2 DEF RelInv, RelReceipt
<1>5. \A r : Told(live, r, touched) => Told(live', r, touched')
    <2> SUFFICES ASSUME NEW r, Told(live, r, touched) PROVE Told(live', r, touched')
        OBVIOUS
    <2>1. Told(live, r, touched')
        BY <1>1, AccordsStill
    <2> QED
        BY <2>1, LikeIsTold
<1>6. RelQuiet'
    BY <1>1, <1>5 DEF RelInv, RelQuiet
<1>7. \A c : GoodPlan(c, tree, envs, touched) => GoodPlan(c, tree', envs', touched')
    BY <1>2 DEF GoodPlan
<1>8. RelJournal'
    <2> SUFFICES ASSUME pending # Releases!NoJournal PROVE RelJournal'
        BY <1>1 DEF RelJournal
    <2>1. /\ GoodPlan(pending, tree, envs, touched)
          /\ Unmoved(live, pending.after, moved) /\ Written(live, pending.after, touched)
          /\ run.pc = "receipt" \/ receipt # pending.receipt => Told(pending.before, receipt, touched)
        BY DEF RelInv, RelJournal
    <2>2. pending.after \in FilesOf
        BY DEF RelInv, RelShape, Journals, Plans
    <2>3. Unmoved(live', pending.after, moved')
        BY <2>1, <2>2
    <2>4. Written(live', pending.after, touched')
        BY <1>1, <2>1 DEF Written
    <2>5. run.pc = "receipt" \/ receipt # pending.receipt => Told(pending.before, receipt, touched')
        BY <1>1, <2>1, AccordsStill
    <2>6. GoodPlan(pending, tree', envs', touched')
        BY <1>7, <2>1
    <2> QED
        BY <1>1, <2>3, <2>4, <2>5, <2>6 DEF RelJournal
<1>9. RelCommand'
    <2>1. ASSUME run.pc \in Early
          PROVE  pending = Releases!NoJournal /\ Prepared(run, receipt.installed, tree', envs', touched')
        <3>1. /\ run \in EarlyRuns /\ pending = Releases!NoJournal
              /\ Prepared(run, receipt.installed, tree, envs, touched)
              /\ run.pc # "plan" => run.target \in Release
            BY <2>1, Working
        <3>2. run.pc = "materialise" => tree'[run.target] = "partial"
            BY <3>1 DEF Prepared
        <3> QED
            BY <1>1, <3>1, <3>2 DEF Prepared
    <2>2. ASSUME run.pc = "commit"
          PROVE  /\ pending = Releases!NoJournal /\ GoodPlan(run, tree', envs', touched') /\ Takes(run, receipt)
                 /\ Unmoved(live', run.before, moved')
        <3>1. /\ pending = Releases!NoJournal /\ GoodPlan(run, tree, envs, touched) /\ Takes(run, receipt)
              /\ Unmoved(live, run.before, moved)
            BY <2>2 DEF RelInv, RelCommand
        <3>2. run.before \in FilesOf
            BY <2>2, Transacting DEF Late, Plans
        <3>3. Unmoved(live', run.before, moved')
            BY <2>2, <3>1, <3>2
        <3> QED
            BY <1>7, <3>1, <3>3
    <2>3. /\ run.pc \in {"receipt", "forget"} => pending = [run EXCEPT !.pc = "open"]
          /\ run.pc = "forget" => receipt = run.receipt
        BY DEF RelInv, RelCommand
    <2> QED
        BY <1>1, <2>1, <2>2, <2>3 DEF RelCommand
<1> QED
    BY <1>3, <1>4, <1>6, <1>8, <1>9 DEF RelInv

LEMMA Untouched ==
    ASSUME RelInv
    PROVE  /\ tree \in [Release -> {"absent", "partial", "whole", "drifted"}] /\ envs \in Seq(BOOLEAN)
           /\ live \in FilesOf
           /\ live = [server |-> live.server, tui |-> live.tui, mcp |-> live.mcp, agent |-> live.agent]
BY DEF RelInv, RelShape, FilesOf

LEMMA EditFileStep == ASSUME RelInv, Releases!EditFile PROVE RelInv'
<1>1. UNCHANGED <<tree, envs>>
    BY DEF Releases!EditFile
<1>2. /\ tree \in [Release -> {"absent", "partial", "whole", "drifted"}] /\ envs \in Seq(BOOLEAN)
      /\ live \in FilesOf
      /\ live = [server |-> live.server, tui |-> live.tui, mcp |-> live.mcp, agent |-> live.agent]
    BY Untouched
<1>3. ASSUME NEW b \in Releases!Bytes, Releases!Edits("agent", {"agent"}), live' = [live EXCEPT !.agent = b]
      PROVE  RelInv'
    <2>1. live' = [server |-> live.server, tui |-> live.tui, mcp |-> live.mcp, agent |-> b]
        BY <1>2, <1>3
    <2>2. live' \in FilesOf
        BY <1>2, <2>1 DEF FilesOf
    <2>3. "agent" \in touched'
        BY <1>3 DEF Releases!Edits
    <2>4. pending # Releases!NoJournal \/ run.pc = "commit" => moved' = moved \cup {"agent"}
        BY <1>3 DEF Releases!Edits, Releases!Pending, Releases!At
    <2>5. pending # Releases!NoJournal \/ run.pc = "commit" =>
              \A m \in FilesOf : Unmoved(live, m, moved) => Unmoved(live', m, moved')
        BY <2>1, <2>4 DEF Unmoved
    <2> QED
        BY <1>1, <1>2, <1>3, <2>1, <2>2, <2>3, <2>5, EditStep
<1>4. ASSUME NEW e \in {Releases!None, Releases!Custom}, Releases!Edits("mcp", {"server"}),
             live' = [live EXCEPT !.mcp = e]
      PROVE  RelInv'
    <2>1. live' = [server |-> live.server, tui |-> live.tui, mcp |-> e, agent |-> live.agent]
        BY <1>2, <1>4
    <2>2. live' \in FilesOf
        BY <1>2, <2>1 DEF FilesOf, Releases!None, Releases!Custom
    <2>3. "mcp" \in touched'
        BY <1>4 DEF Releases!Edits
    <2>4. pending # Releases!NoJournal \/ run.pc = "commit" => moved' = moved \cup {"server"}
        BY <1>4 DEF Releases!Edits, Releases!Pending, Releases!At
    <2>5. pending # Releases!NoJournal \/ run.pc = "commit" =>
              \A m \in FilesOf : Unmoved(live, m, moved) => Unmoved(live', m, moved')
        BY <2>1, <2>4 DEF Unmoved
    <2> QED
        BY <1>1, <1>2, <1>4, <2>1, <2>2, <2>3, <2>5, EditStep
<1>5. ASSUME Releases!Edits("server", {"server"}), live' = [live EXCEPT !.server = {}]
      PROVE  RelInv'
    <2>1. live' = [server |-> {}, tui |-> live.tui, mcp |-> live.mcp, agent |-> live.agent]
        BY <1>2, <1>5
    <2>2. live' \in FilesOf
        BY <1>2, <2>1 DEF FilesOf
    <2>3. "server" \in touched'
        BY <1>5 DEF Releases!Edits
    <2>4. pending # Releases!NoJournal \/ run.pc = "commit" => moved' = moved \cup {"server"}
        BY <1>5 DEF Releases!Edits, Releases!Pending, Releases!At
    <2>5. pending # Releases!NoJournal \/ run.pc = "commit" =>
              \A m \in FilesOf : Unmoved(live, m, moved) => Unmoved(live', m, moved')
        BY <2>1, <2>4 DEF Unmoved
    <2> QED
        BY <1>1, <1>2, <1>5, <2>1, <2>2, <2>3, <2>5, EditStep
<1> QED
    BY <1>3, <1>4, <1>5 DEF Releases!EditFile

LEMMA SpoilStep == ASSUME RelInv, Releases!Spoil PROVE RelInv'
<1>1. UNCHANGED live
    BY DEF Releases!Spoil
<1>2. /\ tree \in [Release -> {"absent", "partial", "whole", "drifted"}] /\ envs \in Seq(BOOLEAN)
      /\ live \in FilesOf
    BY Untouched
<1>3. \A file : (\E what : Releases!Edits(what, file)) /\ file = {} => moved' = moved
    BY DEF Releases!Edits
<1>4. ASSUME NEW r \in Release, tree[r] = "whole", Releases!Edits("tree", {}),
             tree' = [tree EXCEPT ![r] = "drifted"], UNCHANGED envs
      PROVE  RelInv'
    <2>1. tree' \in [Release -> {"absent", "partial", "whole", "drifted"}]
          /\ \A g \in Release : tree[g] = "partial" => tree'[g] = "partial"
        BY <1>2, <1>4
    <2>2. "tree" \in touched' /\ moved' = moved
        BY <1>3, <1>4 DEF Releases!Edits
    <2> QED
        BY <1>1, <1>2, <1>4, <2>1, <2>2, EditStep
<1>5. ASSUME NEW e \in DOMAIN envs, Releases!Edits("env", {}), envs' = [envs EXCEPT ![e] = FALSE],
             UNCHANGED tree
      PROVE  RelInv'
    <2>1. envs' \in Seq(BOOLEAN) /\ Len(envs') = Len(envs)
        <3>1. e \in 1 .. Len(envs)
            BY <1>5, ShapeFacts
        <3> QED
            BY <1>2, <1>5, <3>1, ExceptSeq
    <2>2. "env" \in touched' /\ moved' = moved
        BY <1>3, <1>5 DEF Releases!Edits
    <2> QED
        BY <1>1, <1>2, <1>5, <2>1, <2>2, EditStep
<1> QED
    BY <1>4, <1>5 DEF Releases!Spoil

-----------------------------------------------------------------------------
(* The release manager: its theorems.                                      *)

LEMMA RelInit == ASSUME Releases!Init PROVE RelInv
<1>1. /\ receipt = [exists |-> FALSE, installed |-> FALSE, active |-> Releases!None, gens |-> <<>>,
                    env |-> [r \in Release |-> Releases!None], owned |-> "nobody", pending |-> FALSE]
      /\ pending = Releases!NoJournal /\ run = Releases!Idle
      /\ tree = [r \in Release |-> "absent"] /\ envs = <<>>
      /\ moved = {} /\ touched = {}
    BY DEF Releases!Init, Releases!NoReceipt
<1>2. PICK plugin \in {{}, {Releases!Source}}, agent \in Releases!Bytes, mcp \in {Releases!None, Releases!Custom} :
          live = [server |-> plugin, tui |-> plugin, mcp |-> mcp, agent |-> agent]
    BY DEF Releases!Init
<1>3. receipt \in Receipts
    <2>1. <<>> \in Seq(Release)
        BY EmptySeq
    <2>2. Releases!None \in Nat /\ Releases!None \in Targets
        BY DEF Releases!None, Targets
    <2> QED
        BY <1>1, <2>1, <2>2 DEF Receipts, Owned
<1>4. live \in FilesOf
    <2>1. plugin \in SUBSET Plugins /\ mcp \in Int
        BY DEF Plugins, Releases!None, Releases!Custom
    <2> QED
        BY <1>2, <2>1 DEF FilesOf
<1>5. envs \in Seq(BOOLEAN) /\ Len(envs) = 0
    BY <1>1, EmptySeq
<1>6. RelShape
    BY <1>1, <1>3, <1>4, <1>5 DEF RelShape, Runs, Journals
<1>7. RelReceipt
    <2>1. GensOf(receipt) = {}
        BY <1>1, <1>3, GensAre, EmptySeq DEF GensOf
    <2>2. receipt.installed = FALSE /\ receipt.active = Releases!None
          /\ \A g \in Release : receipt.env[g] = Releases!None
        BY <1>1
    <2>3. Recorded(receipt, Len(envs))
        BY <1>5, <2>2 DEF Recorded, Releases!None
    <2> QED
        BY <2>1, <2>3 DEF RelReceipt, StandsIn
<1>8. RelQuiet
    BY <1>1, <1>2 DEF RelQuiet, Told, Follows, EntryOf
<1>9. RelJournal /\ RelCommand
    BY <1>1 DEF RelJournal, RelCommand, Releases!Idle, Early
<1> QED
    BY <1>6, <1>7, <1>8, <1>9 DEF RelInv

LEMMA RelNext == ASSUME RelInv, Releases!Next PROVE RelInv'
<1>1. CASE \E o \in Options : \/ \E r \in Release : Releases!InstallOrUpdate(o, r) \/ Releases!Rollback(o, r)
                              \/ Releases!Uninstall(o)
    BY <1>1, InstallOrUpdateStep, RollbackStep, UninstallStep
<1>2. CASE Releases!Die
    BY <1>2, EndStep DEF Releases!Die, Releases!Ends
<1> QED
    BY <1>1, <1>2, ReserveStep, ReuseStep, MaterialiseStep, MaterialiseFailsStep, PrepareStep, PlanStep,
       CommitStep, PublishStep, UndoStep, ForgetStep, RepairStep, AcknowledgeStep, EditFileStep, SpoilStep
       DEF Releases!Next

Managed == by = "releases" => RelInv

LEMMA ManagedNext == ASSUME Managed, [InstallationNext]_<<vars, releases>> PROVE Managed' /\ UNCHANGED by
<1>1. CASE by # "releases" /\ Next /\ UNCHANGED releases
    BY <1>1 DEF Next, Managed
<1>2. CASE by = "releases" /\ Releases!Next /\ UNCHANGED vars
    BY <1>2, RelNext DEF Managed, vars
<1>3. CASE UNCHANGED <<vars, releases>>
    BY <1>3 DEF Managed, vars, releases, RelInv, RelShape, RelReceipt, RelQuiet, RelJournal, RelCommand
<1> QED
    BY <1>1, <1>2, <1>3 DEF InstallationNext

LEMMA ManagedInit == ASSUME InstallationInit PROVE Managed
BY RelInit DEF InstallationInit, Init, Managed

\* What an invariant of the manager says to a user of the receipt.
LEMMA ReceiptFollows == ASSUME RelInv PROVE Releases!ReceiptIsTrue /\ Releases!GenerationsStand
<1>1. Releases!GenerationsStand
    BY SameSound, ShapeFacts DEF RelInv, RelReceipt, StandsIn, Releases!GenerationsStand, Releases!Untouched
<1>2. ASSUME receipt.exists, ~Releases!Pending PROVE Releases!Truth
    <2>1. Told(live, receipt, touched)
        BY <1>2 DEF RelInv, RelQuiet, Releases!Pending
    <2>2. Accords(live, receipt, touched) /\ Releases!Mine = HasIt(live, receipt)
        BY <1>2, <2>1 DEF Told, Releases!Mine, HasIt
    <2>3. /\ Releases!Gens = GensOf(receipt) /\ Releases!Prior = EntryOf(receipt)
          /\ receipt.installed => receipt.active \in Releases!Gens
        BY ShapeFacts
    <2>4. \A f \in {"server", "tui"} : "server" \notin touched =>
              live[f] \cap (Releases!Gens \cup {receipt.active}) =
                  (IF receipt.installed THEN {receipt.active} ELSE {})
        BY <2>2, <2>3 DEF Accords, Registers
    <2> QED
        BY <2>2, <2>3, <2>4 DEF Accords, Releases!Truth, Releases!Untouched
<1> QED
    BY <1>1, <1>2 DEF Releases!ReceiptIsTrue

\* After every command, repair and crash of the release manager what its receipt says of the
\* configs, of the mcp entry and of the agent is so, but for what users changed, and every
\* generation it retains can be rolled back to ("the receipt commits last" of commitTransaction
\* and recoverJournal).
THEOREM ReceiptStaysTrue == InstallationSpec => []ReceiptIsTrue
<1>1. InstallationInit => Managed
    BY ManagedInit
<1>2. Managed /\ [InstallationNext]_<<vars, releases>> => Managed'
    BY ManagedNext
<1>3. Managed => ReceiptIsTrue
    BY ReceiptFollows DEF Managed, ReceiptIsTrue
<1> QED
    BY <1>1, <1>2, <1>3, PTL DEF InstallationSpec

LEMMA TakesOnlyStep ==
    ASSUME RelInv, Releases!Next, Releases!At("commit"), run'.pc = "receipt"
    PROVE  /\ live'.mcp # live.mcp => live.mcp \in {Releases!None, Releases!Prior}
           /\ live'.agent # live.agent =>
                  live.agent = "none" \/ Releases!Mine \/ run.o.policy = "force"
<1>1. run.pc = "commit"
    BY DEF Releases!At
<1>2. Releases!Commit
    <2>1. ~Releases!Die /\ ~Releases!RepairJournal /\ ~Releases!Acknowledge
        BY <1>1 DEF Releases!Die, Releases!RepairJournal, Releases!Acknowledge, Releases!At, Releases!Ends,
           Releases!Idle
    <2>2. ~Releases!EditFile /\ ~Releases!Spoil
        BY <1>1 DEF Releases!EditFile, Releases!Spoil, Releases!Edits
    <2>3. /\ ~Releases!Reserve /\ ~Releases!Reuse /\ ~Releases!Materialise /\ ~Releases!MaterialiseFails
          /\ ~Releases!Prepare /\ ~Releases!Plan
        BY <1>1 DEF Releases!Reserve, Releases!Reuse, Releases!Materialise, Releases!MaterialiseFails,
           Releases!Prepare, Releases!Plan, Releases!At
    <2>4. ~Releases!Publish /\ ~Releases!Undo /\ ~Releases!Forget
        BY <1>1 DEF Releases!Publish, Releases!Undo, Releases!Forget, Releases!At
    <2>5. ~Releases!Command
        BY <1>1 DEF Releases!Command, Releases!At
    <2> QED
        BY <2>1, <2>2, <2>3, <2>4, <2>5 DEF Releases!Next, Releases!InstallOrUpdate, Releases!Rollback,
           Releases!Uninstall
<1>3. live' = run.after /\ live = run.before /\ Takes(run, receipt)
    BY <1>2, CommitStep
<1>4. Releases!Prior = EntryOf(receipt) /\ Releases!Mine = HasIt(live, receipt)
    BY ShapeFacts DEF Releases!Mine, HasIt
<1> QED
    BY <1>3, <1>4 DEF Takes

\* A commit of the release manager takes an mcp entry only if it is the receipt's own, and an
\* agent only if it has the recorded bytes, is missing or was forced, whatever users wrote
\* since the plan (planManagedMcpConfig, planAgents and assertCompleteReadSet).
THEOREM OnlyItsOwnIsTaken == InstallationSpec => TakesOnlyItsOwn
<1>1. InstallationInit => Managed
    BY ManagedInit
<1>2. Managed /\ [InstallationNext]_<<vars, releases>> => Managed'
    BY ManagedNext
<1>3. Managed /\ [InstallationNext]_<<vars, releases>> =>
          [by = "releases" => Releases!TakesOnly]_<<vars, releases>>
    BY TakesOnlyStep DEF Managed, InstallationNext, Releases!TakesOnly
<1> QED
    BY <1>1, <1>2, <1>3, PTL DEF InstallationSpec, TakesOnlyItsOwn

-----------------------------------------------------------------------------
(* The scripts of the manager are joined from one per file: what FlattenSeq *)
(* builds (its recursive function exists by the least number without one).  *)

\* Of a set of numbers one is the least: {1..x : x \in S} has a smallest set.
LEMMA Least == ASSUME NEW S \in SUBSET Nat, S # {}
               PROVE \E x \in S : \A y \in S : x <= y
<1>. DEFINE T == {1..x : x \in S}
            R == StrictSubsetOrdering(Nat)
<1>1. T \subseteq FiniteSubsetsOf(Nat) /\ T # {}
    <2>1. \A x \in S : 1..x \subseteq Nat /\ IsFiniteSet(1..x)
        BY FS_Interval
    <2>. QED BY <2>1 DEF FiniteSubsetsOf
<1>2. PICK t \in T : \A u \in T : <<u, t>> \notin R
    <2>. HIDE DEF T
    <2>. QED BY <1>1, FS_StrictSubsetOrderingWellFounded, WFMin
<1>3. PICK x \in S : t = 1..x
    OBVIOUS
<1>4. SUFFICES ASSUME NEW y \in S, y < x PROVE FALSE
    BY SMT
<1>5. 1..y \subseteq 1..x /\ x \in 1..x /\ x \notin 1..y
    <2>1. x \in Nat /\ y \in Nat
        OBVIOUS
    <2>. HIDE DEF T, R
    <2>. QED BY <1>4, <2>1
<1>6. <<1..y, 1..x>> \in R
    BY <1>5 DEF StrictSubsetOrdering
<1>. QED BY <1>2, <1>3, <1>6

Builds(f, ss, k) == f = [i \in 1 .. k |-> IF i = 1 THEN ss[i] ELSE f[i - 1] \o ss[i]]

LEMMA BuildsExists ==
    ASSUME NEW ss, NEW n \in Nat
    PROVE  \E f : Builds(f, ss, n)
<1> DEFINE Bad == {k \in Nat : ~\E f : Builds(f, ss, k)}
<1>1. SUFFICES ASSUME Bad # {} PROVE FALSE
    OBVIOUS
<1>2. PICK k \in Bad : \A j \in Bad : k <= j
    <2>1. Bad \in SUBSET Nat
        OBVIOUS
    <2> HIDE DEF Bad
    <2> QED
        BY <1>1, <2>1, Least
<1>3. k # 0
    <2>1. Builds([i \in 1 .. 0 |-> ss[i]], ss, 0)
        BY DEF Builds
    <2> QED
        BY <2>1
<1>4. k - 1 \in Nat /\ k - 1 \notin Bad
    BY <1>2, <1>3
<1>5. PICK f : Builds(f, ss, k - 1)
    BY <1>4
<1> DEFINE g == [i \in 1 .. k |-> IF i < k THEN f[i] ELSE IF k = 1 THEN ss[k] ELSE f[k - 1] \o ss[k]]
           h == [i \in 1 .. k |-> IF i = 1 THEN ss[i] ELSE g[i - 1] \o ss[i]]
<1>6. ASSUME NEW i \in 1 .. k PROVE g[i] = h[i]
    <2>1. CASE i = k
        <3>1. k # 1 => g[k - 1] = f[k - 1]
            BY <1>3
        <3> QED
            BY <2>1, <3>1
    <2>2. CASE i # k
        <3>1. i \in 1 .. k - 1 /\ (i # 1 => i - 1 \in 1 .. k)
            BY <2>2
        <3>2. f[i] = IF i = 1 THEN ss[i] ELSE f[i - 1] \o ss[i]
            BY <1>5, <3>1 DEF Builds
        <3>3. g[i] = f[i] /\ (i # 1 => g[i - 1] = f[i - 1])
            BY <3>1
        <3>4. h[i] = IF i = 1 THEN ss[i] ELSE g[i - 1] \o ss[i]
            OBVIOUS
        <3> HIDE DEF g, h
        <3> QED
            BY <3>2, <3>3, <3>4
    <2> QED
        BY <2>1, <2>2
<1>7. g = h
    <2>1. g = [i \in 1 .. k |-> g[i]] /\ h = [i \in 1 .. k |-> h[i]]
        OBVIOUS
    <2> HIDE DEF g, h
    <2> QED
        BY <1>6, <2>1
<1>8. Builds(g, ss, k)
    BY <1>7 DEF Builds
<1> QED
    BY <1>8

\* A sequence of sequences, one after the other, is a sequence of their elements.
LEMMA FlattenIs ==
    ASSUME NEW S, NEW ss \in Seq(Seq(S))
    PROVE  Manager!FlattenSeq(ss) \in Seq(S) /\ Direct!FlattenSeq(ss) \in Seq(S)
<1> DEFINE n == Len(ss)
           f == CHOOSE g : Builds(g, ss, n)
<1>1. n \in Nat /\ \A i \in 1 .. n : ss[i] \in Seq(S)
    BY LenProperties, ElementOfSeq
<1>2. Builds(f, ss, n)
    BY <1>1, BuildsExists
<1>3. CASE n = 0
    <2>1. ss = <<>> /\ <<>> \in Seq(S)
        BY <1>3, EmptySeq
    <2> QED
        BY <1>3, <2>1 DEF Manager!FlattenSeq, Direct!FlattenSeq
<1>4. CASE n # 0
    <2> DEFINE Bad == {i \in Nat : i \in 1 .. n /\ f[i] \notin Seq(S)}
    <2>1. Bad = {}
        <3> SUFFICES ASSUME Bad # {} PROVE FALSE
            OBVIOUS
        <3>1. PICK i \in Bad : \A j \in Bad : i <= j
            <4>1. Bad \in SUBSET Nat
                OBVIOUS
            <4> HIDE DEF Bad
            <4> QED
                BY <4>1, Least
        <3>2. i \in 1 .. n /\ i \in Nat /\ f[i] \notin Seq(S)
            OBVIOUS
        <3>3. f[i] = IF i = 1 THEN ss[i] ELSE f[i - 1] \o ss[i]
            <4> HIDE DEF f
            <4> QED
                BY <1>2, <3>2 DEF Builds
        <3>4. i # 1
            BY <1>1, <3>2, <3>3
        <3>5. i - 1 \notin Bad /\ i - 1 \in 1 .. n
            BY <1>1, <3>1, <3>2, <3>4
        <3>6. f[i - 1] \in Seq(S) /\ ss[i] \in Seq(S)
            BY <1>1, <3>2, <3>5
        <3> HIDE DEF f
        <3>7. f[i - 1] \o ss[i] \in Seq(S)
            BY <3>6, ConcatProperties
        <3> QED
            BY <3>2, <3>3, <3>4, <3>7
    <2>2. f[n] \in Seq(S)
        BY <1>1, <1>4, <2>1
    <2>3. Manager!FlattenSeq(ss) = f[n] /\ Direct!FlattenSeq(ss) = f[n]
        BY <1>4 DEF Manager!FlattenSeq, Direct!FlattenSeq, Builds
    <2> QED
        BY <2>2, <2>3
<1> QED
    BY <1>3, <1>4

-----------------------------------------------------------------------------
(* The manager's scripts.                                                  *)

Names == {"base", "writing", "claim", "record", "files-claimed", "unlink", "publish", "live-written",
          "receipt-claimed", "receipt-published", "receipt-committed", "drop-claim", "drop-prepared",
          "erase", "preflight", "withdraw", "return", "all-claimed", "all-published", "all-restored"}
Ops == [do : Names, slot : Slot]
Op(name, s) == [do |-> name, slot |-> s]
PublishReceipt == Op("publish", Receipt)
WithdrawReceipt == Op("withdraw", Receipt)
\* What changes the public name of a file.
Writes == {Op(name, f) : name \in {"unlink", "publish", "withdraw", "return"}, f \in File}
Calm == Ops \ (Writes \cup {PublishReceipt})
NoPublish == Ops \ {PublishReceipt}

LEMMA OpIs == \A name, s : Manager!Do(name, s) = Op(name, s)
BY DEF Manager!Do, Op

LEMMA Slots ==
    /\ Receipt \in Slot /\ Receipt \notin File /\ File \subseteq Slot /\ Slot \ {Receipt} = File
    /\ Manager!Receipt = Receipt /\ Manager!File = File /\ Manager!Slot = Slot
BY FilesAssumption DEF Receipt, Slot, File, Manager!Receipt, Manager!File, Manager!Slot

LEMMA CalmOps ==
    /\ \A name \in Names \ {"unlink", "publish", "withdraw", "return"}, s \in Slot : Op(name, s) \in Calm
    /\ \A name \in Names \ {"publish"} : Op(name, Receipt) \in Calm
    /\ \A name \in Names \ {"publish"}, s \in Slot : Op(name, s) \in NoPublish
    /\ \A f \in File : Op("publish", f) \in NoPublish
    /\ Writes \subseteq NoPublish /\ Calm \subseteq NoPublish /\ NoPublish \subseteq Ops
<1>1. \A name \in Names, s \in Slot : Op(name, s) \in Ops
    BY DEF Ops, Op
<1>2. \A n1, n2, s1, s2 : Op(n1, s1) = Op(n2, s2) => n1 = n2 /\ s1 = s2
    <2> SUFFICES ASSUME NEW n1, NEW n2, NEW s1, NEW s2, Op(n1, s1) = Op(n2, s2) PROVE n1 = n2 /\ s1 = s2
        OBVIOUS
    <2>1. Op(n1, s1).do = n1 /\ Op(n1, s1).slot = s1 /\ Op(n2, s2).do = n2 /\ Op(n2, s2).slot = s2
        BY DEF Op
    <2> QED
        BY <2>1
<1>3. ASSUME NEW name \in Names \ {"unlink", "publish", "withdraw", "return"}, NEW s \in Slot
      PROVE  Op(name, s) \in Calm
    <2>1. Op(name, s) \notin Writes
        BY <1>2, <1>3 DEF Writes
    <2>2. Op(name, s) # PublishReceipt
        BY <1>2, <1>3 DEF PublishReceipt
    <2> QED
        BY <1>1, <2>1, <2>2 DEF Calm
<1>4. ASSUME NEW name \in Names \ {"publish"}
      PROVE  Op(name, Receipt) \in Calm
    <2>1. Op(name, Receipt) \notin Writes
        BY <1>2, Slots DEF Writes
    <2>2. Op(name, Receipt) # PublishReceipt
        BY <1>2, <1>4 DEF PublishReceipt
    <2> QED
        BY <1>1, <2>1, <2>2, Slots DEF Calm
<1>5. ASSUME NEW name \in Names, NEW s \in Slot, name # "publish" \/ s \in File
      PROVE  Op(name, s) \in NoPublish
    <2>1. Op(name, s) # PublishReceipt
        BY <1>2, <1>5, Slots DEF PublishReceipt
    <2> QED
        BY <1>1, <2>1 DEF NoPublish
<1>6. Writes \subseteq NoPublish
    <2> SUFFICES ASSUME NEW name \in {"unlink", "publish", "withdraw", "return"}, NEW f \in File
                 PROVE  Op(name, f) \in NoPublish
        BY DEF Writes
    <2>1. name \in Names /\ f \in Slot
        BY Slots DEF Names
    <2> QED
        BY <1>5, <2>1
<1>7. \A f \in File : Op("publish", f) \in NoPublish
    BY <1>5, Slots DEF Names
<1>8. Calm \subseteq NoPublish /\ NoPublish \subseteq Ops
    BY DEF Calm, NoPublish
<1>9. \A name \in Names \ {"publish"}, s \in Slot : Op(name, s) \in NoPublish
    BY <1>5
<1> QED
    BY <1>3, <1>4, <1>6, <1>7, <1>8, <1>9

\* An operation that may be left out.
LEMMA OneIs == ASSUME NEW S, NEW op \in S PROVE <<op>> \in Seq(S)
OBVIOUS

LEMMA WhenIs ==
    ASSUME NEW S, NEW op \in S, NEW condition
    PROVE  Manager!When(condition, op) \in Seq(S)
<1>1. <<op>> \in Seq(S) /\ <<>> \in Seq(S)
    BY EmptySeq
<1> QED
    BY <1>1 DEF Manager!When

LEMMA ConcatIs == ASSUME NEW S, NEW s \in Seq(S), NEW t \in Seq(S) PROVE s \o t \in Seq(S)
BY ConcatProperties

\* The operations of all files, slot by slot.
LEMMA PerFileIs ==
    ASSUME NEW S, NEW ops, \A f \in File : ops[f] \in Seq(S)
    PROVE  /\ Manager!FlattenSeq([i \in 1 .. Files + 1 - 1 |-> ops[1 + i - 1]]) \in Seq(S)
           /\ Manager!FlattenSeq([i \in 1 .. Files + 1 - 1 |-> ops[Files + 1 - i]]) \in Seq(S)
<1>1. Files \in Nat /\ Files + 1 - 1 = Files
    BY FilesAssumption
<1>2. /\ \A i \in 1 .. Files : 1 + i - 1 \in File /\ Files + 1 - i \in File
    BY <1>1 DEF File
<1>3. /\ [i \in 1 .. Files |-> ops[1 + i - 1]] \in Seq(Seq(S))
      /\ [i \in 1 .. Files |-> ops[Files + 1 - i]] \in Seq(Seq(S))
    BY <1>1, <1>2
<1> QED
    BY <1>1, <1>3, FlattenIs

LEMMA ClaimsAre == \A s \in Slot : Manager!Claims(s) \in Seq(Calm)
<1> SUFFICES ASSUME NEW s \in Slot PROVE Manager!Claims(s) \in Seq(Calm)
    OBVIOUS
<1>1. Op("claim", s) \in Calm /\ Op("record", s) \in Calm
    BY CalmOps DEF Names
<1>2. /\ Manager!When(Manager!Changed(s), Op("claim", s)) \in Seq(Calm)
      /\ Manager!When(Manager!Changed(s) /\ Manager!Had(s), Op("record", s)) \in Seq(Calm)
    BY <1>1, WhenIs
<1> QED
    BY <1>2, ConcatIs, OpIs DEF Manager!Claims

LEMMA DropsAre == \A s \in Slot : Manager!Drops(s) \in Seq(Calm)
<1> SUFFICES ASSUME NEW s \in Slot PROVE Manager!Drops(s) \in Seq(Calm)
    OBVIOUS
<1>1. Op("drop-claim", s) \in Calm /\ Op("drop-prepared", s) \in Calm
    BY CalmOps DEF Names
<1>2. /\ Manager!When(Manager!Changed(s) /\ Manager!Had(s), Op("drop-claim", s)) \in Seq(Calm)
      /\ Manager!When(Manager!Gets(s), Op("drop-prepared", s)) \in Seq(Calm)
    BY <1>1, WhenIs
<1> QED
    BY <1>2, ConcatIs, OpIs DEF Manager!Drops

LEMMA ReplacesAre == \A f \in File : Manager!Replaces(f) \in Seq(NoPublish)
<1> SUFFICES ASSUME NEW f \in File PROVE Manager!Replaces(f) \in Seq(NoPublish)
    OBVIOUS
<1>1. Op("unlink", f) \in NoPublish /\ Op("publish", f) \in NoPublish
    BY CalmOps, Slots DEF Names
<1>2. /\ Manager!When(Manager!Changed(f) /\ Manager!Had(f), Op("unlink", f)) \in Seq(NoPublish)
      /\ Manager!When(Manager!Gets(f), Op("publish", f)) \in Seq(NoPublish)
    BY <1>1, WhenIs
<1> QED
    BY <1>2, ConcatIs, OpIs DEF Manager!Replaces

LEMMA RestoresAre == \A f \in File : Manager!Restores(f) \in Seq(NoPublish)
<1> SUFFICES ASSUME NEW f \in File PROVE Manager!Restores(f) \in Seq(NoPublish)
    OBVIOUS
<1>1. Op("withdraw", f) \in NoPublish /\ Op("return", f) \in NoPublish
    BY CalmOps, Slots DEF Names
<1>2. /\ Manager!When(Manager!Changed(f), Op("withdraw", f)) \in Seq(NoPublish)
      /\ Manager!When(Manager!Changed(f) /\ Manager!Had(f), Op("return", f)) \in Seq(NoPublish)
    BY <1>1, WhenIs
<1> QED
    BY <1>2, ConcatIs, OpIs DEF Manager!Restores

LEMMA CleanupIs == Manager!Cleanup \in Seq(Calm)
<1> DEFINE drops == [f \in File |-> Manager!Drops(f)]
           block == Manager!FlattenSeq([i \in 1 .. Files + 1 - 1 |-> Manager!Drops(1 + i - 1)])
<1>1. \A f \in File : drops[f] \in Seq(Calm)
    BY DropsAre, Slots
<1>2. [i \in 1 .. Files + 1 - 1 |-> Manager!Drops(1 + i - 1)] = [i \in 1 .. Files + 1 - 1 |-> drops[1 + i - 1]]
    BY FilesAssumption DEF File
<1> HIDE DEF drops
<1>3. block \in Seq(Calm)
    BY <1>1, <1>2, PerFileIs
<1>4. Manager!Drops(Receipt) \in Seq(Calm) /\ <<Op("erase", Receipt)>> \in Seq(Calm)
    <2>1. Op("erase", Receipt) \in Calm
        BY CalmOps DEF Names
    <2> QED
        BY <2>1, OneIs, DropsAre, Slots
<1> HIDE DEF block
<1>5. block \o Manager!Drops(Receipt) \o <<Op("erase", Receipt)>> \in Seq(Calm)
    BY <1>3, <1>4, ConcatIs
<1> QED
    BY <1>5, OpIs, Slots DEF Manager!Cleanup, Manager!PerSlot, block

LEMMA RestoreFilesIs == Manager!RestoreFiles \in Seq(NoPublish)
<1> DEFINE restores == [f \in File |-> Manager!Restores(f)]
           block == Manager!FlattenSeq([i \in 1 .. Files + 1 - 1 |-> Manager!Restores(Files + 1 - i)])
<1>1. \A f \in File : restores[f] \in Seq(NoPublish)
    BY RestoresAre
<1>2. [i \in 1 .. Files + 1 - 1 |-> Manager!Restores(Files + 1 - i)] =
          [i \in 1 .. Files + 1 - 1 |-> restores[Files + 1 - i]]
    BY FilesAssumption DEF File
<1> HIDE DEF restores
<1>3. block \in Seq(NoPublish)
    BY <1>1, <1>2, PerFileIs
<1>4. <<Op("preflight", Receipt)>> \in Seq(NoPublish)
    <2>1. Op("preflight", Receipt) \in NoPublish
        BY CalmOps DEF Names
    <2> QED
        BY <2>1, OneIs
<1> HIDE DEF block
<1>5. <<Op("preflight", Receipt)>> \o block \in Seq(NoPublish)
    BY <1>3, <1>4, ConcatIs
<1> QED
    BY <1>5, OpIs, Slots DEF Manager!RestoreFiles, Manager!PerSlotReversed, block

\* Nothing changes a file once the receipt is to be published.
Ordered(ops) == \A i, j \in DOMAIN ops : i < j /\ ops[i] = PublishReceipt => ops[j] \in Calm

LEMMA OrderedJoin ==
    ASSUME NEW a \in Seq(NoPublish), NEW b \in Seq(Calm)
    PROVE  a \o <<PublishReceipt>> \o b \in Seq(Ops) /\ Ordered(a \o <<PublishReceipt>> \o b)
<1> DEFINE one == <<PublishReceipt>>
           ab == a \o one
           all == ab \o b
<1>1. PublishReceipt \in Ops /\ one \in Seq(Ops) /\ Len(one) = 1 /\ one[1] = PublishReceipt
    BY Slots DEF PublishReceipt, Ops, Op, Names
<1>2. a \in Seq(Ops) /\ b \in Seq(Ops)
    BY CalmOps, SeqMonotonic
<1>3. Len(a) \in Nat /\ Len(b) \in Nat
    BY LenProperties
<1> HIDE DEF one
<1>4. /\ ab \in Seq(Ops) /\ Len(ab) = Len(a) + 1
      /\ \A i \in 1 .. Len(a) + 1 : ab[i] = IF i <= Len(a) THEN a[i] ELSE one[i - Len(a)]
    <2>1. /\ ab \in Seq(Ops) /\ Len(ab) = Len(a) + Len(one)
          /\ \A i \in 1 .. Len(a) + Len(one) : ab[i] = IF i <= Len(a) THEN a[i] ELSE one[i - Len(a)]
        BY <1>1, <1>2, ConcatProperties
    <2> HIDE DEF ab
    <2> QED
        BY <1>1, <2>1
<1> HIDE DEF ab
<1>5. /\ all \in Seq(Ops) /\ Len(all) = Len(ab) + Len(b)
      /\ \A i \in 1 .. Len(ab) + Len(b) : all[i] = IF i <= Len(ab) THEN ab[i] ELSE b[i - Len(ab)]
    <2>1. ab \in Seq(Ops) /\ b \in Seq(Ops)
        BY <1>2, <1>4
    <2> QED
        BY <2>1, ConcatProperties
<1> HIDE DEF all
<1>6. DOMAIN all = 1 .. Len(all)
    BY <1>5, LenProperties
<1>7. \A i \in 1 .. Len(a) : all[i] \in NoPublish
    <2> SUFFICES ASSUME NEW i \in 1 .. Len(a) PROVE all[i] \in NoPublish
        OBVIOUS
    <2>1. a[i] \in NoPublish
        BY ElementOfSeq
    <2>2. all[i] = a[i]
        BY <1>3, <1>4, <1>5
    <2> QED
        BY <2>1, <2>2
<1>8. \A j \in Len(a) + 2 .. Len(all) : all[j] \in Calm
    <2> SUFFICES ASSUME NEW j \in Len(a) + 2 .. Len(all) PROVE all[j] \in Calm
        OBVIOUS
    <2>1. all[j] = b[j - Len(ab)] /\ j - Len(ab) \in 1 .. Len(b)
        BY <1>3, <1>4, <1>5
    <2> QED
        BY <2>1, ElementOfSeq
<1>9. ASSUME NEW i \in 1 .. Len(all), NEW j \in 1 .. Len(all), i < j, all[i] = PublishReceipt
      PROVE  all[j] \in Calm
    <2>1. i \notin 1 .. Len(a)
        BY <1>7, <1>9 DEF NoPublish
    <2>2. j \in Len(a) + 2 .. Len(all)
        BY <1>3, <1>4, <1>5, <1>9, <2>1
    <2> QED
        BY <1>8, <2>2
<1> QED
    BY <1>5, <1>6, <1>9 DEF Ordered, all, ab, one

LEMMA ScriptIs == Manager!Script \in Seq(Ops) /\ Ordered(Manager!Script)
<1> DEFINE claims == [f \in File |-> Manager!Claims(f)]
           replaces == [f \in File |-> Manager!Replaces(f)]
           c == Manager!FlattenSeq([i \in 1 .. Files + 1 - 1 |-> Manager!Claims(1 + i - 1)])
           r == Manager!FlattenSeq([i \in 1 .. Files + 1 - 1 |-> Manager!Replaces(1 + i - 1)])
<1>1. \A f \in File : claims[f] \in Seq(NoPublish) /\ replaces[f] \in Seq(NoPublish)
    BY ClaimsAre, ReplacesAre, CalmOps, Slots, SeqMonotonic
<1>2. /\ [i \in 1 .. Files + 1 - 1 |-> Manager!Claims(1 + i - 1)] = [i \in 1 .. Files + 1 - 1 |-> claims[1 + i - 1]]
      /\ [i \in 1 .. Files + 1 - 1 |-> Manager!Replaces(1 + i - 1)] =
             [i \in 1 .. Files + 1 - 1 |-> replaces[1 + i - 1]]
    BY FilesAssumption DEF File
<1> HIDE DEF claims, replaces
<1>3. c \in Seq(NoPublish) /\ r \in Seq(NoPublish)
    BY <1>1, <1>2, PerFileIs
<1> HIDE DEF c, r
<1> DEFINE begin == <<Op("base", Receipt), Op("writing", Receipt)>>
           claimed == <<Op("files-claimed", Receipt)>>
           written == <<Op("live-written", Receipt)>>
           receipts == Manager!Claims(Receipt)
           unlink == Manager!When(Manager!Had(Receipt), Op("unlink", Receipt))
           gone == <<Op("receipt-claimed", Receipt)>>
           first == begin \o c \o claimed \o r \o written \o receipts \o unlink \o gone
           published == <<Op("receipt-published", Receipt)>>
           committed == <<Op("receipt-committed", Receipt)>>
           last == published \o committed \o Manager!Cleanup
<1>4. /\ begin \in Seq(NoPublish) /\ claimed \in Seq(NoPublish) /\ written \in Seq(NoPublish)
      /\ gone \in Seq(NoPublish)
    <2>1. /\ Op("base", Receipt) \in NoPublish /\ Op("writing", Receipt) \in NoPublish
          /\ Op("files-claimed", Receipt) \in NoPublish /\ Op("live-written", Receipt) \in NoPublish
          /\ Op("receipt-claimed", Receipt) \in NoPublish
        BY CalmOps DEF Names
    <2> QED
        BY <2>1
<1>5. receipts \in Seq(NoPublish)
    BY ClaimsAre, CalmOps, Slots, SeqMonotonic
<1>6. unlink \in Seq(NoPublish)
    <2>1. Op("unlink", Receipt) \in NoPublish
        BY CalmOps DEF Names
    <2> QED
        BY <2>1, WhenIs
<1>7. published \in Seq(Calm) /\ committed \in Seq(Calm) /\ Manager!Cleanup \in Seq(Calm)
    <2>1. Op("receipt-published", Receipt) \in Calm /\ Op("receipt-committed", Receipt) \in Calm
        BY CalmOps DEF Names
    <2> QED
        BY <2>1, OneIs, CleanupIs
<1>8. Manager!Script = begin \o c \o claimed \o r \o written \o receipts \o unlink \o gone
          \o <<PublishReceipt, Op("receipt-published", Receipt)>> \o committed \o Manager!Cleanup
    BY OpIs, Slots DEF Manager!Script, Manager!PerSlot, c, r, PublishReceipt
<1>9. <<PublishReceipt, Op("receipt-published", Receipt)>> = <<PublishReceipt>> \o published
    OBVIOUS
<1> HIDE DEF begin, claimed, written, receipts, unlink, gone, published, committed
<1>10. first \in Seq(NoPublish)
    BY <1>3, <1>4, <1>5, <1>6, ConcatIs
<1>11. last \in Seq(Calm)
    BY <1>7, ConcatIs
<1>12. Manager!Script = first \o <<PublishReceipt>> \o last
    <2>1. /\ first \in Seq(Ops) /\ <<PublishReceipt>> \in Seq(Ops) /\ published \in Seq(Ops)
          /\ committed \in Seq(Ops) /\ Manager!Cleanup \in Seq(Ops)
        <3>1. PublishReceipt \in Ops
            BY Slots DEF PublishReceipt, Ops, Op, Names
        <3> HIDE DEF first
        <3> QED
            BY <1>7, <1>10, <3>1, CalmOps, SeqMonotonic
    <2>2. Manager!Script = first \o (<<PublishReceipt>> \o published) \o committed \o Manager!Cleanup
        BY <1>8, <1>9
    <2> HIDE DEF first
    <2>3. first \o (<<PublishReceipt>> \o published) = (first \o <<PublishReceipt>>) \o published
        BY <2>1, ConcatAssociative
    <2> DEFINE x == first \o <<PublishReceipt>>
    <2>4. x \in Seq(Ops) /\ x \o published \in Seq(Ops)
        BY <2>1, ConcatIs
    <2> HIDE DEF x
    <2>5. (x \o published) \o committed = x \o (published \o committed)
        BY <2>1, <2>4, ConcatAssociative
    <2>6. published \o committed \in Seq(Ops)
        BY <2>1, ConcatIs
    <2>7. (x \o (published \o committed)) \o Manager!Cleanup = x \o ((published \o committed) \o Manager!Cleanup)
        <3> DEFINE y == published \o committed
        <3>1. y \in Seq(Ops) /\ x \in Seq(Ops) /\ Manager!Cleanup \in Seq(Ops)
            BY <2>1, <2>4, <2>6
        <3> HIDE DEF y
        <3>2. (x \o y) \o Manager!Cleanup = x \o (y \o Manager!Cleanup)
            BY <3>1, ConcatAssociative
        <3> QED
            BY <3>2 DEF y
    <2> QED
        BY <2>2, <2>3, <2>5, <2>7 DEF x
<1> HIDE DEF first, last
<1> QED
    BY <1>10, <1>11, <1>12, OrderedJoin

-----------------------------------------------------------------------------
(* The receipt commits last.                                               *)

Waits(ops, op) == \E i \in DOMAIN ops : ops[i] = op
\* What is left to do changes a file only after it has taken the receipt back.
Withdrawn(ops) == \A j \in DOMAIN ops : ops[j] \notin Calm =>
    \E i \in DOMAIN ops : i < j /\ ops[i] = WithdrawReceipt
Spoken == \A f \in File \ edited : public[f] = After(f)

LastInv ==
    /\ Named /\ todo \in Seq(Ops) /\ Ordered(todo)
    /\ mode = "new" => todo = <<>> /\ public[Receipt] # "after"
    /\ Waits(todo, PublishReceipt) => public[Receipt] # "after"
    /\ public[Receipt] = "after" => Withdrawn(todo) /\ Spoken

\* A script with no receipt to publish is in order.
LEMMA NoPublishOrdered ==
    ASSUME NEW ops \in Seq(NoPublish)
    PROVE  ops \in Seq(Ops) /\ Ordered(ops) /\ ~Waits(ops, PublishReceipt)
<1>1. DOMAIN ops = 1 .. Len(ops) /\ \A i \in 1 .. Len(ops) : ops[i] \in NoPublish
    BY LenProperties, ElementOfSeq
<1>2. ops \in Seq(Ops)
    BY CalmOps, SeqMonotonic
<1> QED
    BY <1>1, <1>2 DEF Ordered, Waits, NoPublish

LEMMA CalmIsWithdrawn == ASSUME NEW ops \in Seq(Calm) PROVE Withdrawn(ops)
<1>1. DOMAIN ops = 1 .. Len(ops) /\ \A i \in 1 .. Len(ops) : ops[i] \in Calm
    BY LenProperties, ElementOfSeq
<1> QED
    BY <1>1 DEF Withdrawn

LEMMA NothingLeft == <<>> \in Seq(Calm) /\ Ordered(<<>>) /\ Withdrawn(<<>>) /\ ~Waits(<<>>, PublishReceipt)
                     /\ <<>> \in Seq(Ops)
<1>1. <<>> \in Seq(Calm) /\ <<>> \in Seq(NoPublish)
    BY EmptySeq
<1> QED
    BY <1>1, NoPublishOrdered, CalmIsWithdrawn

\* The operation that is done next, and what it leaves.
LEMMA HeadOfTodo ==
    ASSUME todo \in Seq(Ops), todo # <<>>
    PROVE  /\ Head(todo) \in Ops /\ Head(todo) = todo[1] /\ 1 \in DOMAIN todo
           /\ Head(todo) = Op(Head(todo).do, Head(todo).slot)
           /\ Head(todo).slot \in Slot
           /\ Tail(todo) \in Seq(Ops) /\ DOMAIN todo = 1 .. Len(todo) /\ Len(todo) \in Nat
           /\ DOMAIN Tail(todo) = 1 .. Len(todo) - 1
           /\ \A i \in 1 .. Len(todo) - 1 : Tail(todo)[i] = todo[i + 1]
<1>1. /\ Head(todo) \in Ops /\ Tail(todo) \in Seq(Ops) /\ Len(Tail(todo)) = Len(todo) - 1
      /\ \A i \in 1 .. Len(Tail(todo)) : Tail(todo)[i] = todo[i + 1]
    BY HeadTailProperties
<1>2. DOMAIN todo = 1 .. Len(todo) /\ Len(todo) \in Nat \ {0}
    BY LenProperties, EmptySeq
<1>3. DOMAIN Tail(todo) = 1 .. Len(Tail(todo))
    BY <1>1, LenProperties
<1>4. Head(todo) = todo[1]
    BY DEF Head
<1>5. Head(todo) = Op(Head(todo).do, Head(todo).slot) /\ Head(todo).slot \in Slot
    BY <1>1 DEF Ops, Op
<1> QED
    BY <1>1, <1>2, <1>3, <1>4, <1>5

\* One operation is done, that does not publish the receipt.
LEMMA Advance ==
    ASSUME LastInv, todo # <<>>, todo' = Tail(todo), mode' \in {"idle", mode}, Named',
           public'[Receipt] = "after" => public[Receipt] = "after" /\ Head(todo) # WithdrawReceipt /\ Spoken'
    PROVE  LastInv'
<1>1. todo \in Seq(Ops) /\ Ordered(todo)
    BY DEF LastInv
<1>2. /\ 1 \in DOMAIN todo /\ Head(todo) = todo[1] /\ todo' \in Seq(Ops) /\ DOMAIN todo = 1 .. Len(todo)
      /\ Len(todo) \in Nat /\ DOMAIN todo' = 1 .. Len(todo) - 1
      /\ \A i \in 1 .. Len(todo) - 1 : todo'[i] = todo[i + 1] /\ i + 1 \in 1 .. Len(todo)
    <2>1. \A i \in 1 .. Len(todo) - 1 : i + 1 \in 1 .. Len(todo)
        BY <1>1, HeadOfTodo
    <2> QED
        BY <1>1, <2>1, HeadOfTodo
<1>3. Ordered(todo')
    BY <1>1, <1>2 DEF Ordered
<1>4. Waits(todo', PublishReceipt) => Waits(todo, PublishReceipt)
    BY <1>2 DEF Waits
<1>5. mode' # "new"
    BY DEF LastInv
<1>6. ASSUME public'[Receipt] = "after" PROVE Withdrawn(todo')
    <2>1. Withdrawn(todo) /\ todo[1] # WithdrawReceipt
        BY <1>2, <1>6 DEF LastInv
    <2> SUFFICES ASSUME NEW j \in 1 .. Len(todo) - 1, todo'[j] \notin Calm
                 PROVE  \E i \in 1 .. Len(todo) - 1 : i < j /\ todo'[i] = WithdrawReceipt
        BY <1>2 DEF Withdrawn
    <2>2. PICK k \in 1 .. Len(todo) : k < j + 1 /\ todo[k] = WithdrawReceipt
        BY <1>2, <2>1 DEF Withdrawn
    <2>3. k # 1 /\ k - 1 \in 1 .. Len(todo) - 1 /\ k - 1 < j
        BY <1>2, <2>1, <2>2
    <2>4. todo'[k - 1] = todo[k]
        BY <1>2, <2>3
    <2> QED
        BY <2>2, <2>3, <2>4
<1> QED
    BY <1>2, <1>3, <1>4, <1>5, <1>6 DEF LastInv

\* The command stops.
LEMMA StopStep ==
    ASSUME LastInv, todo' = <<>>, mode' = "idle", UNCHANGED <<public, edited, kind, edits>>
    PROVE  LastInv'
<1>1. Named' /\ (Spoken => Spoken')
    BY DEF LastInv, Named, Spoken, After
<1> QED
    BY <1>1, NothingLeft DEF LastInv

\* The command goes on with another script, without a receipt to publish.
LEMMA ScriptStep ==
    ASSUME LastInv, NEW ops \in Seq(NoPublish), todo' = ops, mode' # "new",
           UNCHANGED <<public, edited, kind, edits>>, public[Receipt] = "after" => Withdrawn(ops)
    PROVE  LastInv'
<1>1. Named' /\ (Spoken => Spoken')
    BY DEF LastInv, Named, Spoken, After
<1> QED
    BY <1>1, NoPublishOrdered DEF LastInv

\* Nothing is done that the receipt depends on.
LEMMA StillStep ==
    ASSUME LastInv, UNCHANGED <<public, edited, kind, edits, todo, mode>>
    PROVE  LastInv'
<1>1. Named' /\ (Spoken => Spoken')
    BY DEF LastInv, Named, Spoken, After
<1> QED
    BY <1>1 DEF LastInv

LEMMA Proceeds ==
    ASSUME LastInv, todo # <<>>, Manager!Proceed, UNCHANGED <<public, edited, kind, edits>>,
           Head(todo).do # "withdraw"
    PROVE  LastInv'
<1>1. todo' = Tail(todo) /\ mode' \in {"idle", mode}
    BY DEF Manager!Proceed
<1>2. Named' /\ (Spoken => Spoken')
    BY DEF LastInv, Named, Spoken, After
<1>3. Head(todo) # WithdrawReceipt
    BY DEF WithdrawReceipt, Op
<1> QED
    BY <1>1, <1>2, <1>3, Advance DEF LastInv

\* Whoever is about to change a file has taken the receipt back.
LEMMA WritesAfterReceipt ==
    ASSUME LastInv, todo # <<>>, Head(todo).slot \in File,
           Head(todo).do \in {"unlink", "publish", "withdraw", "return"}
    PROVE  public[Receipt] # "after"
<1>1. todo \in Seq(Ops)
    BY DEF LastInv
<1>2. todo[1] \in Writes /\ 1 \in DOMAIN todo /\ DOMAIN todo = 1 .. Len(todo)
    BY <1>1, HeadOfTodo DEF Writes
<1>3. todo[1] \notin Calm
    BY <1>2 DEF Calm
<1> QED
    BY <1>2, <1>3 DEF LastInv, Withdrawn

LEMMA RunIs ==
    ASSUME NEW names, Manager!Run(names)
    PROVE  /\ todo # <<>> /\ Head(todo).do \in names /\ Manager!Checked(Head(todo))
           /\ todo' = Tail(todo) /\ mode' \in {"idle", mode} /\ Manager!Proceed
           /\ UNCHANGED <<edited, kind, edits>> /\ Manager!At = Head(todo).slot
BY DEF Manager!Run, Manager!Due, Manager!Proceed, Manager!users, Manager!At

\* The name of a slot whose file is not the receipt's changes.
LEMMA FileStep ==
    ASSUME LastInv, todo # <<>>, todo' = Tail(todo), mode' \in {"idle", mode}, UNCHANGED <<edited, kind, edits>>,
           Head(todo).do \in {"unlink", "publish", "withdraw", "return"}, Head(todo).slot \in File,
           NEW inode \in Inodes, public' = [public EXCEPT ![Head(todo).slot] = inode]
    PROVE  LastInv'
<1>1. public[Receipt] # "after"
    BY WritesAfterReceipt
<1>2. public'[Receipt] = public[Receipt] /\ Named'
    BY Slots DEF LastInv, Named
<1> QED
    BY <1>1, <1>2, Advance

\* The name of the receipt changes, and not to the new one.
LEMMA ReceiptStep ==
    ASSUME LastInv, todo # <<>>, todo' = Tail(todo), mode' \in {"idle", mode}, UNCHANGED <<edited, kind, edits>>,
           NEW inode \in Inodes \ {"after"}, public' = [public EXCEPT ![Receipt] = inode]
    PROVE  LastInv'
<1>1. public'[Receipt] # "after" /\ Named'
    BY Slots DEF LastInv, Named
<1> QED
    BY <1>1, Advance

LEMMA LastUnlink == ASSUME LastInv, Manager!UnlinkPublic PROVE LastInv'
<1> DEFINE s == Head(todo).slot
<1>1. /\ todo # <<>> /\ Head(todo).do = "unlink" /\ todo' = Tail(todo) /\ mode' \in {"idle", mode}
      /\ UNCHANGED <<edited, kind, edits>> /\ public' = [public EXCEPT ![s] = "none"]
    <2>1. Manager!Run({"unlink"}) /\ Manager!Unlink(Manager!At)
        BY DEF Manager!UnlinkPublic
    <2>2. public' = [public EXCEPT ![s] = "none"]
        BY <2>1 DEF Manager!Unlink, Manager!At
    <2>3. /\ todo # <<>> /\ Head(todo).do = "unlink" /\ todo' = Tail(todo) /\ mode' \in {"idle", mode}
          /\ UNCHANGED <<edited, kind, edits>>
        BY <2>1 DEF Manager!Run, Manager!Due, Manager!Proceed, Manager!users
    <2> QED
        BY <2>2, <2>3
<1>2. s \in Slot
    BY <1>1, HeadOfTodo DEF LastInv
<1>3. CASE s = Receipt
    BY <1>1, <1>3, ReceiptStep DEF Inodes
<1>4. CASE s \in File
    BY <1>1, <1>4, FileStep DEF Inodes
<1> QED
    BY <1>2, <1>3, <1>4, Slots

LEMMA LastPublish == ASSUME LastInv, Manager!PublishPrepared PROVE LastInv'
<1> DEFINE s == Head(todo).slot
<1>1. /\ todo # <<>> /\ Head(todo).do = "publish" /\ todo' = Tail(todo) /\ mode' \in {"idle", mode}
      /\ UNCHANGED <<edited, kind, edits>> /\ public' = [public EXCEPT ![s] = "after"]
      /\ Manager!Checked(Head(todo))
    <2>1. Manager!Run({"publish"}) /\ Manager!Link(Manager!At, "after")
        BY DEF Manager!PublishPrepared
    <2>2. public' = [public EXCEPT ![s] = "after"]
        BY <2>1 DEF Manager!Link, Manager!At
    <2>3. /\ todo # <<>> /\ Head(todo).do = "publish" /\ todo' = Tail(todo) /\ mode' \in {"idle", mode}
          /\ UNCHANGED <<edited, kind, edits>> /\ Manager!Checked(Head(todo))
        BY <2>1 DEF Manager!Run, Manager!Due, Manager!Proceed, Manager!users
    <2> QED
        BY <2>2, <2>3
<1>2. todo \in Seq(Ops) /\ Ordered(todo) /\ Named
    BY DEF LastInv
<1>3. s \in Slot
    BY <1>1, <1>2, HeadOfTodo
<1>4. CASE s \in File
    BY <1>1, <1>4, FileStep DEF Inodes
<1>5. CASE s = Receipt
    <2>1. /\ todo[1] = PublishReceipt /\ DOMAIN todo = 1 .. Len(todo) /\ Len(todo) \in Nat /\ 1 \in DOMAIN todo
          /\ todo' \in Seq(Ops) /\ DOMAIN todo' = 1 .. Len(todo) - 1
          /\ \A i \in 1 .. Len(todo) - 1 : todo'[i] = todo[i + 1]
        BY <1>1, <1>2, <1>5, HeadOfTodo DEF PublishReceipt
    <2>2. \A j \in 2 .. Len(todo) : todo[j] \in Calm
        BY <1>2, <2>1 DEF Ordered
    <2>3. \A j \in DOMAIN todo' : todo'[j] \in Calm
        BY <2>1, <2>2
    <2>4. Withdrawn(todo') /\ Ordered(todo') /\ ~Waits(todo', PublishReceipt)
        BY <2>3 DEF Withdrawn, Ordered, Waits, Calm
    <2>5. Manager!ReadSet({})
        BY <1>1, <1>5, Slots DEF Manager!Checked
    <2>6. File \subseteq Manager!Published
        <3> SUFFICES ASSUME NEW f \in File, NEW i \in DOMAIN todo,
                            todo[i] \in {Op("unlink", f), Op("publish", f)}
                     PROVE  FALSE
            BY OpIs, Slots DEF Manager!Published, Manager!Pending
        <3>1. todo[i] \in Writes /\ todo[i].slot = f
            BY DEF Writes, Op
        <3>2. i # 1
            BY <1>5, <2>1, <3>1, Slots DEF PublishReceipt, Op
        <3> QED
            BY <2>1, <2>2, <3>1, <3>2 DEF Calm
    <2>7. \A f \in File : public[f] = After(f)
        BY <2>5, <2>6, ManagerPlans, Slots, ManagerHolds DEF Manager!ReadSet, Holds
    <2>8. Spoken' /\ Named'
        BY <1>1, <1>2, <1>5, <2>7, Slots DEF Spoken, After, Named, Inodes
    <2>9. mode' # "new"
        BY <1>1 DEF LastInv
    <2> QED
        BY <2>1, <2>4, <2>8, <2>9 DEF LastInv
<1> QED
    BY <1>3, <1>4, <1>5, Slots

LEMMA LastWithdraw == ASSUME LastInv, Manager!Withdraw PROVE LastInv'
<1> DEFINE s == Head(todo).slot
<1>1. /\ todo # <<>> /\ Head(todo).do = "withdraw" /\ todo' = Tail(todo) /\ mode' \in {"idle", mode}
      /\ UNCHANGED <<edited, kind, edits>> /\ Manager!Checked(Head(todo))
      /\ IF Manager!Class(s) = "after" THEN public' = [public EXCEPT ![s] = "none"] ELSE UNCHANGED public
    BY RunIs DEF Manager!Withdraw, Manager!Unlink, Manager!links
<1>2. s \in Slot /\ Named
    BY <1>1, HeadOfTodo DEF LastInv
<1>3. CASE s = Receipt
    <2>1. Manager!Class(s) \in {"after"}
        BY <1>1, <1>3, Slots DEF Manager!Checked
    <2> QED
        BY <1>1, <1>3, <2>1, ReceiptStep DEF Inodes
<1>4. CASE s \in File /\ Manager!Class(s) = "after"
    BY <1>1, <1>4, FileStep DEF Inodes
<1>5. CASE s \in File /\ Manager!Class(s) # "after"
    <2>1. public[Receipt] # "after"
        BY <1>1, <1>5, WritesAfterReceipt
    <2>2. Named' /\ UNCHANGED public
        BY <1>1, <1>2, <1>5 DEF Named
    <2> QED
        BY <1>1, <2>1, <2>2, Advance
<1> QED
    BY <1>2, <1>3, <1>4, <1>5, Slots

LEMMA LastReturn == ASSUME LastInv, Manager!Return PROVE LastInv'
<1> DEFINE s == Head(todo).slot
<1>1. /\ todo # <<>> /\ Head(todo).do = "return" /\ todo' = Tail(todo) /\ mode' \in {"idle", mode}
      /\ UNCHANGED <<edited, kind, edits>> /\ Manager!Proceed
      /\ IF public[s] = "none" THEN public' = [public EXCEPT ![s] = "before"] ELSE UNCHANGED public
    BY RunIs DEF Manager!Return, Manager!Link, Manager!links
<1>2. s \in Slot
    BY <1>1, HeadOfTodo DEF LastInv
<1>3. CASE public[s] # "none"
    BY <1>1, <1>3, Proceeds
<1>4. CASE public[s] = "none" /\ s = Receipt
    BY <1>1, <1>4, ReceiptStep DEF Inodes
<1>5. CASE public[s] = "none" /\ s \in File
    BY <1>1, <1>5, FileStep DEF Inodes
<1> QED
    BY <1>2, <1>3, <1>4, <1>5, Slots

\* What begins two scripts after one another is what begins the first.
LEMMA ConcatHead ==
    ASSUME NEW S, NEW a \in Seq(S), NEW b \in Seq(S), a # <<>>
    PROVE  a \o b \in Seq(S) /\ a \o b # <<>> /\ (a \o b)[1] = a[1]
<1>1. Len(a) \in Nat /\ Len(a) > 0 /\ Len(b) \in Nat
    BY EmptySeq, LenProperties
<1>2. /\ a \o b \in Seq(S) /\ Len(a \o b) = Len(a) + Len(b)
      /\ \A i \in 1 .. Len(a) + Len(b) : (a \o b)[i] = IF i <= Len(a) THEN a[i] ELSE b[i - Len(a)]
    BY ConcatProperties
<1>3. 1 \in 1 .. Len(a) + Len(b) /\ 1 <= Len(a)
    BY <1>1
<1>4. Len(<<>>) = 0
    OBVIOUS
<1>5. a \o b # <<>>
    <2> SUFFICES ASSUME a \o b = <<>> PROVE FALSE
        OBVIOUS
    <2>1. Len(a \o b) = 0
        BY <1>4
    <2> QED
        BY <1>1, <1>2, <2>1
<1> QED
    BY <1>2, <1>3, <1>5

LEMMA LastUndo == ASSUME LastInv, Manager!Undo, UNCHANGED <<public, edited, kind, edits>> PROVE LastInv'
<1>1. CASE Manager!Stop
    BY <1>1, StopStep DEF Manager!Stop
<1> DEFINE committed == ~Manager!Pending("publish", Manager!Receipt)
           taken == Manager!Had(Manager!Receipt) /\ ~Manager!Pending("claim", Manager!Receipt)
           w == Manager!When(committed, Op("withdraw", Receipt))
           r == Manager!When(taken, Op("return", Receipt))
           rest == Manager!RestoreFiles \o Manager!Cleanup
<1>2. CASE mode' = "undo" /\ todo' = (w \o r) \o Manager!RestoreFiles \o Manager!Cleanup
    <2>1. /\ w \in Seq(NoPublish) /\ r \in Seq(NoPublish)
          /\ Manager!RestoreFiles \in Seq(NoPublish) /\ Manager!Cleanup \in Seq(NoPublish)
        <3>1. Op("withdraw", Receipt) \in NoPublish /\ Op("return", Receipt) \in NoPublish
            BY CalmOps DEF Names
        <3> QED
            BY <3>1, WhenIs, RestoreFilesIs, CleanupIs, CalmOps, SeqMonotonic
    <2> HIDE DEF w, r
    <2> DEFINE all == (w \o r) \o Manager!RestoreFiles \o Manager!Cleanup
    <2>2. all \in Seq(NoPublish)
        BY <2>1, ConcatIs
    <2>3. ASSUME public[Receipt] = "after" PROVE Withdrawn(all)
        <3>1. committed
            BY <2>3, OpIs, Slots DEF LastInv, Waits, Manager!Pending, PublishReceipt
        <3>2. w = <<WithdrawReceipt>>
            BY <3>1 DEF w, Manager!When, WithdrawReceipt
        <3>3. w # <<>> /\ w[1] = WithdrawReceipt
            BY <3>2
        <3> DEFINE wr == w \o r
                   wrf == wr \o Manager!RestoreFiles
        <3>4. wr \in Seq(NoPublish) /\ wr # <<>> /\ wr[1] = w[1]
            BY <2>1, <3>3, ConcatHead
        <3> HIDE DEF wr
        <3>5. wrf \in Seq(NoPublish) /\ wrf # <<>> /\ wrf[1] = wr[1]
            BY <2>1, <3>4, ConcatHead
        <3> HIDE DEF wrf
        <3>6. all = wrf \o Manager!Cleanup
            BY DEF wrf, wr
        <3>7. all[1] = WithdrawReceipt /\ all # <<>>
            BY <2>1, <3>3, <3>4, <3>5, <3>6, ConcatHead
        <3>8. DOMAIN all = 1 .. Len(all) /\ Len(all) \in Nat
            BY <2>2, LenProperties
        <3>9. WithdrawReceipt \in Calm
            BY CalmOps DEF WithdrawReceipt, Names
        <3> HIDE DEF all
        <3> QED
            BY <3>7, <3>8, <3>9 DEF Withdrawn
    <2> HIDE DEF all
    <2>4. todo' = all /\ mode' # "new"
        BY <1>2 DEF all
    <2> QED
        BY <2>2, <2>3, <2>4, ScriptStep
<1> QED
    BY <1>1, <1>2, OpIs, Slots DEF Manager!Undo

LEMMA LastRecover == ASSUME LastInv, Manager!Recover PROVE LastInv'
<1>1. /\ mode' = "recover" /\ UNCHANGED <<public, edited, kind, edits>>
      /\ todo' = IF Manager!Forward THEN Manager!Cleanup
                 ELSE Manager!RestoreFiles \o Manager!When(Manager!ClaimedBefore, Op("return", Receipt))
                      \o Manager!Cleanup
      /\ Manager!Forward \/ Manager!Backward
    BY OpIs, Slots DEF Manager!Recover, Manager!Repairable, Manager!links, Manager!users
<1>2. Manager!Cleanup \in Seq(NoPublish) /\ Manager!Cleanup \in Seq(Calm)
    BY CleanupIs, CalmOps, SeqMonotonic
<1>3. CASE Manager!Forward
    BY <1>1, <1>2, <1>3, ScriptStep, CalmIsWithdrawn
<1>4. CASE ~Manager!Forward
    <2> DEFINE r == Manager!When(Manager!ClaimedBefore, Op("return", Receipt))
               all == Manager!RestoreFiles \o r \o Manager!Cleanup
    <2>1. r \in Seq(NoPublish)
        <3>1. Op("return", Receipt) \in NoPublish
            BY CalmOps DEF Names
        <3> QED
            BY <3>1, WhenIs
    <2> HIDE DEF r
    <2>2. all \in Seq(NoPublish)
        BY <1>2, <2>1, RestoreFilesIs, ConcatIs
    <2>3. public[Receipt] # "after"
        BY <1>1, <1>4, ManagerPlans, Slots DEF Manager!Backward, Manager!Baseline, Manager!ClaimedBefore,
           Manager!Holds, Before
    <2>4. todo' = all /\ mode' # "new"
        BY <1>1, <1>4 DEF r
    <2> HIDE DEF all
    <2> QED
        BY <1>1, <2>2, <2>3, <2>4, ScriptStep
<1> QED
    BY <1>3, <1>4

LEMMA LastEdit == ASSUME LastInv, Manager!Edit PROVE LastInv'
<1>1. Manager!UserEdit
    BY DEF Manager!Edit
<1>2. PICK s \in Slot : /\ edited' = edited \cup {s}
                        /\ \/ \E inode \in {"none", "foreign"} : public' = [public EXCEPT ![s] = inode]
                           \/ UNCHANGED public
    BY <1>1, Slots DEF Manager!UserEdit
<1>3. UNCHANGED <<kind, todo, mode>> /\ edits' = edits + 1
    BY <1>1 DEF Manager!UserEdit, Manager!command
<1>4. public \in [Slot -> Inodes] /\ edits \in Nat
    BY DEF LastInv, Named
<1>5. Named'
    BY <1>2, <1>3, <1>4 DEF Named, Inodes
<1>6. public'[Receipt] = "after" => public[Receipt] = "after"
    BY <1>2, <1>4, Slots
<1>7. Spoken => Spoken'
    <2>1. \A f \in File \ edited' : public'[f] = public[f] /\ f \in File \ edited
        BY <1>2, <1>4, Slots
    <2> QED
        BY <1>3, <2>1 DEF Spoken, After
<1> QED
    BY <1>3, <1>5, <1>6, <1>7 DEF LastInv

LEMMA LastNext == ASSUME LastInv, Manager!Next PROVE LastInv'
<1>1. CASE Manager!Begin
    <2>1. mode = "new" /\ mode' = "commit" /\ todo' = Manager!Script /\ UNCHANGED <<public, edited, kind, edits>>
        BY <1>1 DEF Manager!Begin, Manager!BeginWith, Manager!users
    <2>2. public[Receipt] # "after" /\ Named'
        BY <2>1 DEF LastInv, Named
    <2> QED
        BY <2>1, <2>2, ScriptIs DEF LastInv
<1>2. CASE Manager!PublishData \/ Manager!EraseAnchor
    BY <1>2, StillStep DEF Manager!PublishData, Manager!EraseAnchor, Manager!links, Manager!users, Manager!command
<1>3. CASE Manager!PublishAnchor
    <2>1. todo # <<>> /\ Head(todo).do # "withdraw" /\ Manager!Proceed /\ UNCHANGED <<public, edited, kind, edits>>
        BY <1>3 DEF Manager!PublishAnchor, Manager!Due, Manager!Journaled, Manager!Phase, Manager!links,
           Manager!users
    <2> QED
        BY <2>1, Proceeds
<1>4. CASE Manager!EraseData
    <2>1. todo # <<>> /\ Head(todo).do # "withdraw" /\ UNCHANGED <<public, edited, kind, edits>>
          /\ (Manager!Proceed \/ UNCHANGED <<todo, mode>>)
        BY <1>4 DEF Manager!EraseData, Manager!Due, Manager!links, Manager!users, Manager!command
    <2> QED
        BY <2>1, Proceeds, StillStep
<1>5. CASE Manager!Claim
    <2>1. todo # <<>> /\ Head(todo).do # "withdraw" /\ Manager!Proceed /\ UNCHANGED <<public, edited, kind, edits>>
        BY <1>5, RunIs DEF Manager!Claim, Manager!TakeClaim
    <2> QED
        BY <2>1, Proceeds
<1>6. CASE Manager!Preflight
    <2>1. todo # <<>> /\ Head(todo).do # "withdraw" /\ Manager!Proceed /\ UNCHANGED <<public, edited, kind, edits>>
        BY <1>6, RunIs DEF Manager!Preflight, Manager!links
    <2> QED
        BY <2>1, Proceeds
<1>7. CASE Manager!DropAuxiliary
    <2>1. todo # <<>> /\ Head(todo).do # "withdraw" /\ Manager!Proceed /\ UNCHANGED <<public, edited, kind, edits>>
        <3>1. Manager!Run({"drop-claim", "drop-prepared"}) /\ Manager!Drop(Head(todo))
            BY <1>7 DEF Manager!DropAuxiliary
        <3>2. UNCHANGED public
            BY <3>1 DEF Manager!Drop
        <3>3. /\ todo # <<>> /\ Head(todo).do # "withdraw" /\ Manager!Proceed
              /\ UNCHANGED <<edited, kind, edits>>
            BY <3>1 DEF Manager!Run, Manager!Due, Manager!users
        <3> QED
            BY <3>2, <3>3
    <2> QED
        BY <2>1, Proceeds
<1>8. CASE Manager!Refuse \/ Manager!Fault
    <2>1. Manager!Abandon /\ UNCHANGED <<public, edited, kind, edits>>
        BY <1>8 DEF Manager!Refuse, Manager!Fault, Manager!links, Manager!users
    <2> QED
        BY <2>1, LastUndo, StopStep DEF Manager!Abandon, Manager!Stop
<1>9. CASE Manager!JournalFault \/ Manager!Crash
    <2>1. todo' = <<>> /\ mode' = "idle" /\ UNCHANGED <<public, edited, kind, edits>>
        BY <1>9 DEF Manager!JournalFault, Manager!Crash, Manager!CrashCommand, Manager!Stop, Manager!links,
           Manager!users
    <2> QED
        BY <2>1, StopStep
<1> QED
    BY <1>1, <1>2, <1>3, <1>4, <1>5, <1>6, <1>7, <1>8, <1>9, LastUnlink, LastPublish, LastWithdraw, LastReturn,
       LastRecover, LastEdit DEF Manager!Next

LEMMA LastInit == ASSUME Manager!FilesInit PROVE LastInv
<1>1. public = [s \in Slot |-> Before(s)] /\ todo = <<>> /\ edits = 0 /\ mode = "new"
    BY Slots, ManagerPlans DEF Manager!FilesInit
<1>2. Named
    BY <1>1, Planned DEF Named
<1>3. public[Receipt] # "after"
    BY <1>1, Slots DEF Before
<1> QED
    BY <1>1, <1>2, <1>3, NothingLeft DEF LastInv

Transaction == by = "manager" => LastInv

\* The manager's receipt is published after every file it speaks of, and taken back before any
\* of them: whatever fails, crashes or is edited in a commit, a rollback or a repair, while the
\* new receipt is public so is every file of the plan but those users changed (commitTransaction
\* publishes the receipt last, recoverJournal goes by it).
THEOREM ReceiptIsLast == InstallationSpec => []ReceiptCommitsLast
<1>1. InstallationInit => Transaction
    BY LastInit DEF InstallationInit, Init, Manager!Init, Transaction
<1>2. Transaction /\ [InstallationNext]_<<vars, releases>> => Transaction'
    <2> SUFFICES ASSUME Transaction, [InstallationNext]_<<vars, releases>> PROVE Transaction'
        OBVIOUS
    <2>1. CASE by = "manager" /\ Manager!Next /\ UNCHANGED <<by, outcome>>
        BY <2>1, LastNext DEF Transaction
    <2>2. CASE by = "direct" /\ UNCHANGED by
        BY <2>2 DEF Transaction
    <2>3. CASE UNCHANGED vars
        BY <2>3, StillStep DEF Transaction, vars, files, links, users, command
    <2> QED
        BY <2>1, <2>2, <2>3 DEF InstallationNext, Next
<1>3. Transaction => ReceiptCommitsLast
    BY Slots, ManagerPlans DEF Transaction, LastInv, Spoken, ReceiptCommitsLast, Manager!ReceiptCommitsLast
<1> QED
    BY <1>1, <1>2, <1>3, PTL DEF InstallationSpec
-----------------------------------------------------------------------------
(* What the scripts of the manager and of the installer do, in which order. *)

\* What removes the links and the journal once the files are as they are to be.
Tidying == {"drop-claim", "drop-prepared", "erase"}
\* What is over for a slot once the operation is done.
Spent(name) == CASE name = "unlink" -> {"claim", "record", "unlink"}
                 [] name = "publish" -> {"claim", "record", "unlink", "publish"}
                 [] name = "return" -> {"withdraw"}
                 [] OTHER -> {}
Precedes(x, y) ==
    /\ x.slot = y.slot => y.do \notin Spent(x.do)
    /\ x.do \in Tidying => y.do \in Tidying
    /\ x.do # "erase"
InOrder(ops) == \A i, j \in DOMAIN ops : i < j => Precedes(ops[i], ops[j])
Tidy(ops) == \A op : Waits(ops, op) => op.do \in Tidying

\* A sequence of just these operations, in order.
Block(ops, set) == ops \in Seq(Ops) /\ InOrder(ops) /\ \A op : Waits(ops, op) <=> op \in set

LEMMA OpFields == \A name, s : Op(name, s).do = name /\ Op(name, s).slot = s
BY DEF Op

LEMMA Empty == Block(<<>>, {})
<1>1. <<>> \in Seq(Ops) /\ DOMAIN <<>> = {}
    BY EmptySeq
<1> QED
    BY <1>1 DEF Block, InOrder, Waits

LEMMA One == ASSUME NEW op \in Ops PROVE Block(<<op>>, {op})
<1>1. <<op>> \in Seq(Ops) /\ DOMAIN <<op>> = {1} /\ <<op>>[1] = op
    OBVIOUS
<1>2. InOrder(<<op>>)
    BY <1>1 DEF InOrder
<1>3. \A o : Waits(<<op>>, o) <=> o = op
    BY <1>1 DEF Waits
<1> QED
    BY <1>1, <1>2, <1>3 DEF Block

LEMMA Join ==
    ASSUME NEW a, NEW A, NEW b, NEW B, Block(a, A), Block(b, B), \A x \in A, y \in B : Precedes(x, y)
    PROVE  Block(a \o b, A \cup B)
<1> DEFINE ab == a \o b
<1>1. a \in Seq(Ops) /\ b \in Seq(Ops)
    BY DEF Block
<1>2. /\ ab \in Seq(Ops) /\ Len(ab) = Len(a) + Len(b)
      /\ \A i \in 1 .. Len(a) + Len(b) : ab[i] = IF i <= Len(a) THEN a[i] ELSE b[i - Len(a)]
    BY <1>1, ConcatProperties
<1>3. /\ Len(a) \in Nat /\ Len(b) \in Nat /\ DOMAIN a = 1 .. Len(a) /\ DOMAIN b = 1 .. Len(b)
    BY <1>1, LenProperties
<1>4. DOMAIN ab = 1 .. Len(a) + Len(b)
    BY <1>2, LenProperties
<1> HIDE DEF ab
<1>5. \A i \in 1 .. Len(a) : i \in 1 .. Len(a) + Len(b) /\ ab[i] = a[i]
    BY <1>2, <1>3
<1>6. \A i \in 1 .. Len(b) : i + Len(a) \in 1 .. Len(a) + Len(b) /\ ab[i + Len(a)] = b[i]
    BY <1>2, <1>3
<1>7. \A i \in 1 .. Len(a) + Len(b) : \/ i \in 1 .. Len(a)
                                      \/ i - Len(a) \in 1 .. Len(b) /\ i > Len(a)
    BY <1>3
<1>8. \A i \in 1 .. Len(a) : a[i] \in A
    BY <1>3 DEF Block, Waits
<1>9. \A i \in 1 .. Len(b) : b[i] \in B
    BY <1>3 DEF Block, Waits
<1>10. ASSUME NEW op PROVE Waits(ab, op) <=> op \in A \cup B
    <2>1. ASSUME op \in A PROVE Waits(ab, op)
        <3>1. PICK i \in 1 .. Len(a) : a[i] = op
            BY <1>3, <2>1 DEF Block, Waits
        <3> QED
            BY <1>4, <1>5, <3>1 DEF Waits
    <2>2. ASSUME op \in B PROVE Waits(ab, op)
        <3>1. PICK i \in 1 .. Len(b) : b[i] = op
            BY <1>3, <2>2 DEF Block, Waits
        <3> QED
            BY <1>4, <1>6, <3>1 DEF Waits
    <2>3. ASSUME NEW i \in 1 .. Len(a) + Len(b), ab[i] = op PROVE op \in A \cup B
        <3>1. CASE i \in 1 .. Len(a)
            BY <1>5, <1>8, <2>3, <3>1
        <3>2. CASE i - Len(a) \in 1 .. Len(b) /\ i > Len(a)
            <4>1. ab[i] = b[i - Len(a)]
                BY <1>2, <1>3, <3>2
            <4> QED
                BY <1>9, <2>3, <3>2, <4>1
        <3> QED
            BY <1>7, <3>1, <3>2
    <2> QED
        BY <1>4, <2>1, <2>2, <2>3 DEF Waits
<1>11. ASSUME NEW i \in 1 .. Len(a) + Len(b), NEW j \in 1 .. Len(a) + Len(b), i < j
       PROVE  Precedes(ab[i], ab[j])
    <2>1. CASE j \in 1 .. Len(a)
        <3>1. i \in 1 .. Len(a)
            BY <1>3, <1>11, <2>1
        <3> QED
            BY <1>3, <1>5, <1>11, <2>1, <3>1 DEF Block, InOrder
    <2>2. CASE i \in 1 .. Len(a) /\ j - Len(a) \in 1 .. Len(b) /\ j > Len(a)
        <3>1. ab[j] = b[j - Len(a)]
            BY <1>2, <1>3, <2>2
        <3> QED
            BY <1>5, <1>8, <1>9, <2>2, <3>1
    <2>3. CASE i - Len(a) \in 1 .. Len(b) /\ i > Len(a) /\ j - Len(a) \in 1 .. Len(b) /\ j > Len(a)
        <3>1. ab[j] = b[j - Len(a)] /\ ab[i] = b[i - Len(a)] /\ i - Len(a) < j - Len(a)
            BY <1>2, <1>3, <1>11, <2>3
        <3> QED
            BY <1>3, <2>3, <3>1 DEF Block, InOrder
    <2> QED
        BY <1>3, <1>7, <1>11, <2>1, <2>2, <2>3
<1>12. InOrder(ab)
    BY <1>4, <1>11 DEF InOrder
<1>13. Block(ab, A \cup B)
    BY <1>2, <1>10, <1>12 DEF Block
<1> QED
    BY <1>13 DEF ab

LEMMA Flat ==
    ASSUME NEW n \in Nat, NEW ss, ss = [i \in 1 .. n |-> ss[i]],
           NEW sets, NEW all, \A op : op \in all <=> \E i \in 1 .. n : op \in sets[i],
           \A i \in 1 .. n : Block(ss[i], sets[i]),
           \A i, j \in 1 .. n : i < j => \A x \in sets[i], y \in sets[j] : Precedes(x, y)
    PROVE  Block(Manager!FlattenSeq(ss), all) /\ Block(Direct!FlattenSeq(ss), all)
<1> DEFINE Upto(k) == UNION {sets[i] : i \in 1 .. k}
           f == CHOOSE g : Builds(g, ss, n)
<1>1. Len(ss) = n
    <2>1. \A i \in 1 .. n : ss[i] \in Seq(Ops)
        BY DEF Block
    <2>2. ss \in Seq(Seq(Ops))
        BY <2>1
    <2>3. DOMAIN ss = 1 .. Len(ss) /\ Len(ss) \in Nat /\ DOMAIN ss = 1 .. n
        BY <2>2, LenProperties
    <2> QED
        BY <2>3
<1> Upto(n) = all
    OBVIOUS
<1>2. Builds(f, ss, n)
    BY BuildsExists
<1>3. CASE n = 0
    <2>1. ss = <<>>
        BY <1>3
    <2>2. Upto(0) = {}
        OBVIOUS
    <2>3. Block(<<>>, Upto(n))
        BY <1>3, <2>2, Empty
    <2> QED
        BY <1>3, <2>1, <2>3 DEF Manager!FlattenSeq, Direct!FlattenSeq
<1>4. CASE n # 0
    <2> DEFINE Bad == {i \in 1 .. n : ~Block(f[i], Upto(i))}
    <2>1. Bad = {}
        <3> SUFFICES ASSUME Bad # {} PROVE FALSE
            OBVIOUS
        <3>1. PICK i \in Bad : \A j \in Bad : i <= j
            <4>1. Bad \in SUBSET Nat
                OBVIOUS
            <4> HIDE DEF Bad
            <4> QED
                BY <4>1, Least
        <3>2. i \in 1 .. n /\ i \in Nat /\ ~Block(f[i], Upto(i))
            OBVIOUS
        <3>3. f[i] = IF i = 1 THEN ss[i] ELSE f[i - 1] \o ss[i]
            <4> HIDE DEF f
            <4> QED
                BY <1>2, <3>2 DEF Builds
        <3>4. CASE i = 1
            <4>1. Upto(1) = sets[1]
                OBVIOUS
            <4>2. Block(ss[1], sets[1])
                BY <3>2, <3>4
            <4> HIDE DEF f, Upto
            <4> QED
                BY <3>2, <3>3, <3>4, <4>1, <4>2
        <3>5. CASE i # 1
            <4>1. i - 1 \in 1 .. n /\ ~(i <= i - 1)
                BY <3>2, <3>5
            <4>2. Block(f[i - 1], Upto(i - 1))
                <5>1. i - 1 \notin Bad
                    <6> HIDE DEF Bad
                    <6> QED
                        BY <3>1, <4>1
                <5> HIDE DEF f, Upto
                <5> QED
                    BY <4>1, <5>1
            <4>3. ASSUME NEW x \in Upto(i - 1), NEW y \in sets[i] PROVE Precedes(x, y)
                <5>1. PICK j \in 1 .. i - 1 : x \in sets[j]
                    OBVIOUS
                <5>2. j \in 1 .. n /\ j < i
                    BY <3>2
                <5> QED
                    BY <3>2, <5>1, <5>2
            <4>4. Upto(i - 1) \cup sets[i] = Upto(i)
                <5>1. 1 .. i = 1 .. (i - 1) \cup {i}
                    BY <3>2
                <5> QED
                    BY <5>1
            <4>5. Block(ss[i], sets[i])
                BY <3>2
            <4> HIDE DEF f, Upto
            <4>6. Block(f[i - 1] \o ss[i], Upto(i - 1) \cup sets[i])
                BY <4>2, <4>3, <4>5, Join
            <4> QED
                BY <3>2, <3>3, <3>5, <4>4, <4>6
        <3> QED
            BY <3>4, <3>5
    <2>2. Block(f[n], Upto(n))
        <3>1. n \in 1 .. n
            BY <1>4
        <3>2. n \notin Bad
            <4> HIDE DEF Bad
            <4> QED
                BY <2>1
        <3> HIDE DEF f, Upto
        <3> QED
            BY <3>1, <3>2
    <2>3. Manager!FlattenSeq(ss) = f[n] /\ Direct!FlattenSeq(ss) = f[n]
        BY <1>1, <1>4 DEF Manager!FlattenSeq, Direct!FlattenSeq, Builds
    <2> QED
        BY <2>2, <2>3
<1> QED
    BY <1>3, <1>4

\* What is planned of a slot is the same for the manager and for the installer.
LEMMA PlansAre ==
    \A s : /\ Manager!Changed(s) <=> Changed(s)
           /\ Manager!Had(s) <=> Had(s)
           /\ Manager!Gets(s) <=> Gets(s)
           /\ Direct!Changed(s) <=> Changed(s)
           /\ Direct!Had(s) <=> Had(s)
           /\ Direct!Gets(s) <=> Gets(s)
BY DEF Manager!Changed, Manager!Had, Manager!Gets, Manager!Before, Manager!After,
   Direct!Changed, Direct!Had, Direct!Gets, Direct!Before, Direct!After, Changed, Had, Gets, Before, After

LEMMA OpsAre == \A name \in Names, s \in Slot : Op(name, s) \in Ops
BY DEF Ops, Op

LEMMA SameOp == \A n1, n2, s1, s2 : Op(n1, s1) = Op(n2, s2) <=> n1 = n2 /\ s1 = s2
<1> SUFFICES ASSUME NEW n1, NEW n2, NEW s1, NEW s2, Op(n1, s1) = Op(n2, s2) PROVE n1 = n2 /\ s1 = s2
    OBVIOUS
<1> QED
    BY OpFields

LEMMA SpentIs ==
    /\ Spent("unlink") = {"claim", "record", "unlink"}
    /\ Spent("publish") = {"claim", "record", "unlink", "publish"}
    /\ Spent("return") = {"withdraw"}
    /\ \A name \in Names \ {"unlink", "publish", "return"} : Spent(name) = {}
BY DEF Spent

LEMMA FreeFirst ==
    ASSUME NEW x, NEW y, x.do \in Names \ (Tidying \cup {"unlink", "publish", "return"})
    PROVE  Precedes(x, y)
BY SpentIs DEF Precedes, Tidying

\* Operations of different slots are in any order until those that tidy up begin.
LEMMA OtherFirst ==
    ASSUME NEW x, NEW y, x.slot # y.slot, x.do \notin Tidying
    PROVE  Precedes(x, y)
BY DEF Precedes, Tidying

LEMMA TidyFirst ==
    ASSUME NEW x, NEW y, x.do \in Tidying \ {"erase"}, y.do \in Tidying
    PROVE  Precedes(x, y)
BY SpentIs DEF Precedes, Tidying, Names

\* The operations that two conditions ask for, one after the other.
Only(condition, op) == {o \in {op} : condition}

LEMMA OnlyBlock ==
    ASSUME NEW op \in Ops, NEW condition
    PROVE  Block(Manager!When(condition, op), Only(condition, op))
           /\ Block(Direct!When(condition, op), Only(condition, op))
<1>1. CASE condition
    <2>1. Only(condition, op) = {op}
        BY <1>1 DEF Only
    <2> QED
        BY <1>1, <2>1, One DEF Manager!When, Direct!When
<1>2. CASE ~condition
    <2>1. Only(condition, op) = {}
        BY <1>2 DEF Only
    <2> QED
        BY <1>2, <2>1, Empty DEF Manager!When, Direct!When
<1> QED
    BY <1>1, <1>2

LEMMA PairBlock ==
    ASSUME NEW op1 \in Ops, NEW c1, NEW op2 \in Ops, NEW c2, Precedes(op1, op2)
    PROVE  /\ Block(Manager!When(c1, op1) \o Manager!When(c2, op2), Only(c1, op1) \cup Only(c2, op2))
           /\ Block(Direct!When(c1, op1) \o Direct!When(c2, op2), Only(c1, op1) \cup Only(c2, op2))
<1>1. \A x \in Only(c1, op1), y \in Only(c2, op2) : Precedes(x, y)
    BY DEF Only
<1> QED
    BY <1>1, OnlyBlock, Join

\* The operations of a set of slots.
Of(names, set) == {op \in Ops : op.do \in names /\ op.slot \in set}
ClaimOps(set) == Of({"claim"}, {s \in set : Changed(s)}) \cup Of({"record"}, {s \in set : Changed(s) /\ Had(s)})
ReplaceOps(set) == Of({"unlink"}, {s \in set : Changed(s) /\ Had(s)}) \cup Of({"publish"}, {s \in set : Gets(s)})
DropOps(set) ==
    Of({"drop-claim"}, {s \in set : Changed(s) /\ Had(s)}) \cup Of({"drop-prepared"}, {s \in set : Gets(s)})
RestoreOps(set) ==
    Of({"withdraw"}, {s \in set : Changed(s)}) \cup Of({"return"}, {s \in set : Changed(s) /\ Had(s)})

LEMMA OfOne ==
    /\ \A name \in Names, s \in Slot : Of({name}, {s}) = {Op(name, s)}
    /\ \A name : Of({name}, {}) = {}
<1>1. \A op \in Ops : op = Op(op.do, op.slot)
    BY DEF Ops, Op
<1> QED
    BY <1>1, OpsAre, OpFields DEF Of

LEMMA SlotSets ==
    \A s : /\ {t \in {s} : Changed(t)} = IF Changed(s) THEN {s} ELSE {}
           /\ {t \in {s} : Changed(t) /\ Had(t)} = IF Changed(s) /\ Had(s) THEN {s} ELSE {}
           /\ {t \in {s} : Gets(t)} = IF Gets(s) THEN {s} ELSE {}
OBVIOUS

LEMMA ClaimsBlock ==
    \A s \in Slot : /\ Block(Manager!Claims(s), ClaimOps({s}))
                    /\ Block(Direct!Claims(s), Of({"claim"}, {t \in {s} : Changed(t)}))
<1> SUFFICES ASSUME NEW s \in Slot
             PROVE  /\ Block(Manager!Claims(s), ClaimOps({s}))
                    /\ Block(Direct!Claims(s), Of({"claim"}, {t \in {s} : Changed(t)}))
    OBVIOUS
<1>1. Op("claim", s) \in Ops /\ Op("record", s) \in Ops /\ "claim" \in Names /\ "record" \in Names
    BY OpsAre DEF Names
<1>2. Precedes(Op("claim", s), Op("record", s))
    <2>1. "claim" \in Names \ (Tidying \cup {"unlink", "publish", "return"})
        BY DEF Tidying, Names
    <2>2. Op("claim", s).do \in Names \ (Tidying \cup {"unlink", "publish", "return"})
        BY <2>1, OpFields
    <2> QED
        BY <2>2, FreeFirst
<1>3. Block(Manager!When(Changed(s), Op("claim", s)) \o Manager!When(Changed(s) /\ Had(s), Op("record", s)),
            Only(Changed(s), Op("claim", s)) \cup Only(Changed(s) /\ Had(s), Op("record", s)))
    BY <1>1, <1>2, PairBlock
<1>4. Block(Direct!When(Changed(s), Op("claim", s)), Only(Changed(s), Op("claim", s)))
    BY <1>1, OnlyBlock
<1>5. /\ Only(Changed(s), Op("claim", s)) = Of({"claim"}, {t \in {s} : Changed(t)})
      /\ Only(Changed(s) /\ Had(s), Op("record", s)) = Of({"record"}, {t \in {s} : Changed(t) /\ Had(t)})
    <2>1. /\ Of({"claim"}, {s}) = {Op("claim", s)} /\ Of({"claim"}, {}) = {}
          /\ Of({"record"}, {s}) = {Op("record", s)} /\ Of({"record"}, {}) = {}
        BY <1>1, OfOne
    <2>2. Only(Changed(s), Op("claim", s)) = IF Changed(s) THEN {Op("claim", s)} ELSE {}
        BY DEF Only
    <2>3. Only(Changed(s) /\ Had(s), Op("record", s)) = IF Changed(s) /\ Had(s) THEN {Op("record", s)} ELSE {}
        BY DEF Only
    <2> QED
        BY <2>1, <2>2, <2>3, SlotSets
<1>6. Manager!Claims(s) = Manager!When(Changed(s), Op("claim", s))
                          \o Manager!When(Changed(s) /\ Had(s), Op("record", s))
    BY OpIs, PlansAre DEF Manager!Claims, Manager!When
<1>7. Direct!Claims(s) = Direct!When(Changed(s), Op("claim", s))
    BY PlansAre DEF Direct!Claims, Direct!When, Direct!Do, Op
<1> QED
    BY <1>3, <1>4, <1>5, <1>6, <1>7 DEF ClaimOps

LEMMA ReplacesBlock ==
    \A s \in Slot : Block(Manager!Replaces(s), ReplaceOps({s})) /\ Block(Direct!Replaces(s), ReplaceOps({s}))
<1> SUFFICES ASSUME NEW s \in Slot
             PROVE  Block(Manager!Replaces(s), ReplaceOps({s})) /\ Block(Direct!Replaces(s), ReplaceOps({s}))
    OBVIOUS
<1>1. Op("unlink", s) \in Ops /\ Op("publish", s) \in Ops /\ "unlink" \in Names /\ "publish" \in Names
    BY OpsAre DEF Names
<1>2. Precedes(Op("unlink", s), Op("publish", s))
    <2>1. "publish" \notin Spent("unlink") /\ "unlink" \notin Tidying /\ "unlink" # "erase"
        BY SpentIs DEF Tidying
    <2> QED
        BY <2>1, OpFields DEF Precedes
<1> DEFINE a == Only(Changed(s) /\ Had(s), Op("unlink", s))
           b == Only(Gets(s), Op("publish", s))
<1>3. /\ Block(Manager!When(Changed(s) /\ Had(s), Op("unlink", s)) \o Manager!When(Gets(s), Op("publish", s)), a \cup b)
      /\ Block(Direct!When(Changed(s) /\ Had(s), Op("unlink", s)) \o Direct!When(Gets(s), Op("publish", s)), a \cup b)
    BY <1>1, <1>2, PairBlock
<1>4. a = Of({"unlink"}, {t \in {s} : Changed(t) /\ Had(t)}) /\ b = Of({"publish"}, {t \in {s} : Gets(t)})
    <2>1. /\ Of({"unlink"}, {s}) = {Op("unlink", s)} /\ Of({"unlink"}, {}) = {}
          /\ Of({"publish"}, {s}) = {Op("publish", s)} /\ Of({"publish"}, {}) = {}
        BY <1>1, OfOne
    <2>2. a = IF Changed(s) /\ Had(s) THEN {Op("unlink", s)} ELSE {}
        BY DEF Only
    <2>3. b = IF Gets(s) THEN {Op("publish", s)} ELSE {}
        BY DEF Only
    <2> QED
        BY <2>1, <2>2, <2>3, SlotSets
<1>5. Manager!Replaces(s) = Manager!When(Changed(s) /\ Had(s), Op("unlink", s))
                            \o Manager!When(Gets(s), Op("publish", s))
    BY OpIs, PlansAre DEF Manager!Replaces, Manager!When
<1>6. Direct!Replaces(s) = Direct!When(Changed(s) /\ Had(s), Op("unlink", s))
                           \o Direct!When(Gets(s), Op("publish", s))
    BY PlansAre DEF Direct!Replaces, Direct!When, Direct!Do, Op
<1> QED
    BY <1>3, <1>4, <1>5, <1>6 DEF ReplaceOps

LEMMA DropsBlock ==
    \A s \in Slot : Block(Manager!Drops(s), DropOps({s})) /\ Block(Direct!Drops(s), DropOps({s}))
<1> SUFFICES ASSUME NEW s \in Slot
             PROVE  Block(Manager!Drops(s), DropOps({s})) /\ Block(Direct!Drops(s), DropOps({s}))
    OBVIOUS
<1>1. /\ Op("drop-claim", s) \in Ops /\ Op("drop-prepared", s) \in Ops
      /\ "drop-claim" \in Names /\ "drop-prepared" \in Names
    BY OpsAre DEF Names
<1>2. Precedes(Op("drop-claim", s), Op("drop-prepared", s))
    <2>1. Op("drop-claim", s).do \in Tidying \ {"erase"} /\ Op("drop-prepared", s).do \in Tidying
        <3>1. "drop-claim" \in Tidying \ {"erase"} /\ "drop-prepared" \in Tidying
            BY DEF Tidying
        <3> QED
            BY <3>1, OpFields
    <2> QED
        BY <2>1, TidyFirst
<1> DEFINE a == Only(Changed(s) /\ Had(s), Op("drop-claim", s))
           b == Only(Gets(s), Op("drop-prepared", s))
<1>3. /\ Block(Manager!When(Changed(s) /\ Had(s), Op("drop-claim", s))
               \o Manager!When(Gets(s), Op("drop-prepared", s)), a \cup b)
      /\ Block(Direct!When(Changed(s) /\ Had(s), Op("drop-claim", s))
               \o Direct!When(Gets(s), Op("drop-prepared", s)), a \cup b)
    BY <1>1, <1>2, PairBlock
<1>4. /\ a = Of({"drop-claim"}, {t \in {s} : Changed(t) /\ Had(t)})
      /\ b = Of({"drop-prepared"}, {t \in {s} : Gets(t)})
    <2>1. /\ Of({"drop-claim"}, {s}) = {Op("drop-claim", s)} /\ Of({"drop-claim"}, {}) = {}
          /\ Of({"drop-prepared"}, {s}) = {Op("drop-prepared", s)} /\ Of({"drop-prepared"}, {}) = {}
        BY <1>1, OfOne
    <2>2. a = IF Changed(s) /\ Had(s) THEN {Op("drop-claim", s)} ELSE {}
        BY DEF Only
    <2>3. b = IF Gets(s) THEN {Op("drop-prepared", s)} ELSE {}
        BY DEF Only
    <2> QED
        BY <2>1, <2>2, <2>3, SlotSets
<1>5. Manager!Drops(s) = Manager!When(Changed(s) /\ Had(s), Op("drop-claim", s))
                         \o Manager!When(Gets(s), Op("drop-prepared", s))
    BY OpIs, PlansAre DEF Manager!Drops, Manager!When
<1>6. Direct!Drops(s) = Direct!When(Changed(s) /\ Had(s), Op("drop-claim", s))
                        \o Direct!When(Gets(s), Op("drop-prepared", s))
    BY PlansAre DEF Direct!Drops, Direct!When, Direct!Do, Op
<1> QED
    BY <1>3, <1>4, <1>5, <1>6 DEF DropOps

LEMMA RestoresBlock == \A s \in Slot : Block(Manager!Restores(s), RestoreOps({s}))
<1> SUFFICES ASSUME NEW s \in Slot PROVE Block(Manager!Restores(s), RestoreOps({s}))
    OBVIOUS
<1>1. Op("withdraw", s) \in Ops /\ Op("return", s) \in Ops /\ "withdraw" \in Names /\ "return" \in Names
    BY OpsAre DEF Names
<1>2. Precedes(Op("withdraw", s), Op("return", s))
    <2>1. "withdraw" \in Names \ (Tidying \cup {"unlink", "publish", "return"})
        BY DEF Tidying, Names
    <2>2. Op("withdraw", s).do \in Names \ (Tidying \cup {"unlink", "publish", "return"})
        BY <2>1, OpFields
    <2> QED
        BY <2>2, FreeFirst
<1> DEFINE a == Only(Changed(s), Op("withdraw", s))
           b == Only(Changed(s) /\ Had(s), Op("return", s))
<1>3. Block(Manager!When(Changed(s), Op("withdraw", s))
            \o Manager!When(Changed(s) /\ Had(s), Op("return", s)), a \cup b)
    BY <1>1, <1>2, PairBlock
<1>4. a = Of({"withdraw"}, {t \in {s} : Changed(t)}) /\ b = Of({"return"}, {t \in {s} : Changed(t) /\ Had(t)})
    <2>1. /\ Of({"withdraw"}, {s}) = {Op("withdraw", s)} /\ Of({"withdraw"}, {}) = {}
          /\ Of({"return"}, {s}) = {Op("return", s)} /\ Of({"return"}, {}) = {}
        BY <1>1, OfOne
    <2>2. a = IF Changed(s) THEN {Op("withdraw", s)} ELSE {}
        BY DEF Only
    <2>3. b = IF Changed(s) /\ Had(s) THEN {Op("return", s)} ELSE {}
        BY DEF Only
    <2> QED
        BY <2>1, <2>2, <2>3, SlotSets
<1>5. Manager!Restores(s) = Manager!When(Changed(s), Op("withdraw", s))
                            \o Manager!When(Changed(s) /\ Had(s), Op("return", s))
    BY OpIs, PlansAre DEF Manager!Restores, Manager!When
<1> QED
    BY <1>3, <1>4, <1>5 DEF RestoreOps

\* The operations of several slots.
LEMMA OfSlots ==
    ASSUME NEW set, NEW op
    PROVE  /\ op \in ClaimOps(set) <=> \E s \in set : op \in ClaimOps({s})
           /\ op \in Of({"claim"}, {t \in set : Changed(t)})
              <=> \E s \in set : op \in Of({"claim"}, {t \in {s} : Changed(t)})
           /\ op \in ReplaceOps(set) <=> \E s \in set : op \in ReplaceOps({s})
           /\ op \in DropOps(set) <=> \E s \in set : op \in DropOps({s})
           /\ op \in RestoreOps(set) <=> \E s \in set : op \in RestoreOps({s})
BY DEF ClaimOps, ReplaceOps, DropOps, RestoreOps, Of

\* What is done of one slot after another, in any order of the slots.
Arranged(n, seq, slots, at, sets, all) ==
    /\ n \in Nat /\ seq = [i \in 1 .. n |-> seq[i]]
    /\ \A op : op \in all <=> \E s \in slots : op \in sets[s]
    /\ \A s, t \in slots : s # t => \A x \in sets[s], y \in sets[t] : Precedes(x, y)
    /\ \A i \in 1 .. n : at[i] \in slots /\ Block(seq[i], sets[at[i]])
    /\ \A i, j \in 1 .. n : i < j => at[i] # at[j]
    /\ \A s \in slots : \E i \in 1 .. n : at[i] = s

LEMMA EachBlock ==
    ASSUME NEW n, NEW seq, NEW slots, NEW at, NEW sets, NEW all, Arranged(n, seq, slots, at, sets, all)
    PROVE  Block(Manager!FlattenSeq(seq), all) /\ Block(Direct!FlattenSeq(seq), all)
<1> USE DEF Arranged
<1> DEFINE parts == [i \in 1 .. n |-> sets[at[i]]]
<1>1. \A i \in 1 .. n : Block(seq[i], parts[i])
    OBVIOUS
<1>2. \A i, j \in 1 .. n : i < j => \A x \in parts[i], y \in parts[j] : Precedes(x, y)
    OBVIOUS
<1>3. \A i \in 1 .. n : parts[i] = sets[at[i]]
    OBVIOUS
<1> HIDE DEF parts
<1>4. \A op : op \in all <=> \E i \in 1 .. n : op \in parts[i]
    BY <1>3
<1> QED
    BY <1>1, <1>2, <1>4, Flat

\* The two orders.
Up(first) == [i \in 1 .. Files + 1 - first |-> first + i - 1]
Down(first) == [i \in 1 .. Files + 1 - first |-> Files + 1 - i]

LEMMA Orders ==
    ASSUME NEW first \in 0 .. 1, NEW at, at = Up(first) \/ at = Down(first), NEW n, n = Files + 1 - first
    PROVE  /\ n \in Nat /\ \A i \in 1 .. n : at[i] \in first .. Files
           /\ \A i, j \in 1 .. n : i < j => at[i] # at[j]
           /\ \A s \in first .. Files : \E i \in 1 .. n : at[i] = s
<1>1. n \in Nat /\ Files \in Nat /\ first \in Nat
    BY FilesAssumption
<1>2. ASSUME NEW s \in first .. Files PROVE \E i \in 1 .. n : at[i] = s
    <2>1. CASE at = Up(first)
        <3>1. s - first + 1 \in 1 .. n /\ first + (s - first + 1) - 1 = s
            BY <1>1
        <3>2. at[s - first + 1] = first + (s - first + 1) - 1
            BY <2>1, <3>1 DEF Up
        <3> QED
            BY <3>1, <3>2
    <2>2. CASE at = Down(first)
        <3>1. Files + 1 - s \in 1 .. n /\ Files + 1 - (Files + 1 - s) = s
            BY <1>1
        <3>2. at[Files + 1 - s] = Files + 1 - (Files + 1 - s)
            BY <2>2, <3>1 DEF Down
        <3> QED
            BY <3>1, <3>2
    <2> QED
        BY <2>1, <2>2
<1>3. \A i \in 1 .. n : at[i] = first + i - 1 \/ at[i] = Files + 1 - i
    BY DEF Up, Down
<1>4. \A i, j \in 1 .. n : i < j => at[i] # at[j]
    <2>1. CASE at = Up(first)
        BY <1>1, <2>1 DEF Up
    <2>2. CASE at = Down(first)
        BY <1>1, <2>2 DEF Down
    <2> QED
        BY <2>1, <2>2
<1>5. \A i \in 1 .. n : at[i] \in first .. Files
    BY <1>1, <1>3
<1> QED
    BY <1>1, <1>2, <1>4, <1>5

-----------------------------------------------------------------------------
(* The scripts of the manager and of the installer.                        *)

LEMMA DropsTidy == \A set : \A x \in DropOps(set) : x \in Ops /\ x.do \in Tidying \ {"erase"}
BY DEF DropOps, Of, Tidying

LEMMA FreeOps ==
    /\ \A name \in Names \ (Tidying \cup {"unlink", "publish", "return"}) : \A s, y : Precedes(Op(name, s), y)
    /\ \A set : \A x \in ClaimOps(set) : \A y : Precedes(x, y)
    /\ \A set : \A x \in Of({"claim"}, set) : \A y : Precedes(x, y)
<1>1. \A name \in Names \ (Tidying \cup {"unlink", "publish", "return"}) : \A s, y : Precedes(Op(name, s), y)
    BY FreeFirst, OpFields
<1>2. {"claim", "record"} \subseteq Names \ (Tidying \cup {"unlink", "publish", "return"})
    BY DEF Names, Tidying
<1>3. \A set : \A x \in ClaimOps(set) : x.do \in {"claim", "record"}
    BY DEF ClaimOps, Of
<1>4. \A set : \A x \in Of({"claim"}, set) : x.do \in {"claim", "record"}
    BY DEF Of
<1> QED
    BY <1>1, <1>2, <1>3, <1>4, FreeFirst

LEMMA FileBlocks ==
    /\ Block(Manager!PerSlot(1, Manager!Claims), ClaimOps(File))
    /\ Block(Manager!PerSlot(1, Manager!Replaces), ReplaceOps(File))
    /\ Block(Manager!PerSlot(1, Manager!Drops), DropOps(File))
    /\ Block(Manager!PerSlotReversed(1, Manager!Restores), RestoreOps(File))
<1> DEFINE n == Files + 1 - 1
           up == Up(1)
           down == Down(1)
<1>1. File = 1 .. Files /\ File \subseteq Slot
    BY Slots DEF File
<1>2. /\ n \in Nat /\ \A i \in 1 .. n : up[i] \in File /\ down[i] \in File
      /\ \A i, j \in 1 .. n : i < j => up[i] # up[j] /\ down[i] # down[j]
      /\ \A s \in File : (\E i \in 1 .. n : up[i] = s) /\ (\E i \in 1 .. n : down[i] = s)
    <2>1. 1 \in 0 .. 1
        OBVIOUS
    <2> HIDE DEF n, up, down
    <2> QED
        BY <1>1, <2>1, Orders DEF n, up, down
<1>3. /\ \A i \in 1 .. n : up[i] = 1 + i - 1 /\ down[i] = Files + 1 - i
    BY DEF Up, Down
<1> HIDE DEF up, down
<1>4. Block(Manager!PerSlot(1, Manager!Claims), ClaimOps(File))
    <2> DEFINE seq == [i \in 1 .. n |-> Manager!Claims(1 + i - 1)]
               sets == [s \in File |-> ClaimOps({s})]
    <2>1. Manager!PerSlot(1, Manager!Claims) = Manager!FlattenSeq(seq)
        BY DEF Manager!PerSlot
    <2>2. \A i \in 1 .. n : Block(seq[i], sets[up[i]])
        <3>1. \A i \in 1 .. n : seq[i] = Manager!Claims(up[i])
            BY <1>3
        <3>2. \A s \in File : Block(Manager!Claims(s), sets[s])
            BY <1>1, ClaimsBlock
        <3> HIDE DEF seq, sets, n
        <3> QED
            BY <1>2, <3>1, <3>2
    <2>3. \A s, t \in File : s # t => \A x \in sets[s], y \in sets[t] : Precedes(x, y)
        BY FreeOps
    <2>4. \A op : op \in ClaimOps(File) <=> \E s \in File : op \in sets[s]
        BY OfSlots
    <2>5. seq = [i \in 1 .. n |-> seq[i]]
        OBVIOUS
    <2> HIDE DEF seq, sets, n
    <2>6. Block(Manager!FlattenSeq(seq), ClaimOps(File))
        <3>1. \A i \in 1 .. n : up[i] \in File /\ Block(seq[i], sets[up[i]])
            BY <1>2, <2>2
        <3>2. n \in Nat /\ \A i, j \in 1 .. n : i < j => up[i] # up[j]
            BY <1>2
        <3>3. \A s \in File : \E i \in 1 .. n : up[i] = s
            BY <1>2
        <3>4. Arranged(n, seq, File, up, sets, ClaimOps(File))
            BY <2>3, <2>4, <2>5, <3>1, <3>2, <3>3 DEF Arranged
        <3> QED
            BY <3>4, EachBlock
    <2> QED
        BY <2>1, <2>6
<1>5. Block(Manager!PerSlot(1, Manager!Replaces), ReplaceOps(File))
    <2> DEFINE seq == [i \in 1 .. n |-> Manager!Replaces(1 + i - 1)]
               sets == [s \in File |-> ReplaceOps({s})]
    <2>1. Manager!PerSlot(1, Manager!Replaces) = Manager!FlattenSeq(seq)
        BY DEF Manager!PerSlot
    <2>2. \A i \in 1 .. n : Block(seq[i], sets[up[i]])
        <3>1. \A i \in 1 .. n : seq[i] = Manager!Replaces(up[i])
            BY <1>3
        <3>2. \A s \in File : Block(Manager!Replaces(s), sets[s])
            BY <1>1, ReplacesBlock
        <3> HIDE DEF seq, sets, n
        <3> QED
            BY <1>2, <3>1, <3>2
    <2>3. \A s, t \in File : s # t => \A x \in sets[s], y \in sets[t] : Precedes(x, y)
        BY OtherFirst DEF ReplaceOps, Of, Tidying
    <2>4. \A op : op \in ReplaceOps(File) <=> \E s \in File : op \in sets[s]
        BY OfSlots
    <2>5. seq = [i \in 1 .. n |-> seq[i]]
        OBVIOUS
    <2> HIDE DEF seq, sets, n
    <2>6. Block(Manager!FlattenSeq(seq), ReplaceOps(File))
        <3>1. \A i \in 1 .. n : up[i] \in File /\ Block(seq[i], sets[up[i]])
            BY <1>2, <2>2
        <3>2. n \in Nat /\ \A i, j \in 1 .. n : i < j => up[i] # up[j]
            BY <1>2
        <3>3. \A s \in File : \E i \in 1 .. n : up[i] = s
            BY <1>2
        <3>4. Arranged(n, seq, File, up, sets, ReplaceOps(File))
            BY <2>3, <2>4, <2>5, <3>1, <3>2, <3>3 DEF Arranged
        <3> QED
            BY <3>4, EachBlock
    <2> QED
        BY <2>1, <2>6
<1>6. Block(Manager!PerSlot(1, Manager!Drops), DropOps(File))
    <2> DEFINE seq == [i \in 1 .. n |-> Manager!Drops(1 + i - 1)]
               sets == [s \in File |-> DropOps({s})]
    <2>1. Manager!PerSlot(1, Manager!Drops) = Manager!FlattenSeq(seq)
        BY DEF Manager!PerSlot
    <2>2. \A i \in 1 .. n : Block(seq[i], sets[up[i]])
        <3>1. \A i \in 1 .. n : seq[i] = Manager!Drops(up[i])
            BY <1>3
        <3>2. \A s \in File : Block(Manager!Drops(s), sets[s])
            BY <1>1, DropsBlock
        <3> HIDE DEF seq, sets, n
        <3> QED
            BY <1>2, <3>1, <3>2
    <2>3. \A s, t \in File : s # t => \A x \in sets[s], y \in sets[t] : Precedes(x, y)
        BY TidyFirst, DropsTidy
    <2>4. \A op : op \in DropOps(File) <=> \E s \in File : op \in sets[s]
        BY OfSlots
    <2>5. seq = [i \in 1 .. n |-> seq[i]]
        OBVIOUS
    <2> HIDE DEF seq, sets, n
    <2>6. Block(Manager!FlattenSeq(seq), DropOps(File))
        <3>1. \A i \in 1 .. n : up[i] \in File /\ Block(seq[i], sets[up[i]])
            BY <1>2, <2>2
        <3>2. n \in Nat /\ \A i, j \in 1 .. n : i < j => up[i] # up[j]
            BY <1>2
        <3>3. \A s \in File : \E i \in 1 .. n : up[i] = s
            BY <1>2
        <3>4. Arranged(n, seq, File, up, sets, DropOps(File))
            BY <2>3, <2>4, <2>5, <3>1, <3>2, <3>3 DEF Arranged
        <3> QED
            BY <3>4, EachBlock
    <2> QED
        BY <2>1, <2>6
<1>7. Block(Manager!PerSlotReversed(1, Manager!Restores), RestoreOps(File))
    <2> DEFINE seq == [i \in 1 .. n |-> Manager!Restores(Files + 1 - i)]
               sets == [s \in File |-> RestoreOps({s})]
    <2>1. Manager!PerSlotReversed(1, Manager!Restores) = Manager!FlattenSeq(seq)
        BY DEF Manager!PerSlotReversed
    <2>2. \A i \in 1 .. n : Block(seq[i], sets[down[i]])
        <3>1. \A i \in 1 .. n : seq[i] = Manager!Restores(down[i])
            BY <1>3
        <3>2. \A s \in File : Block(Manager!Restores(s), sets[s])
            BY <1>1, RestoresBlock
        <3> HIDE DEF seq, sets, n
        <3> QED
            BY <1>2, <3>1, <3>2
    <2>3. \A s, t \in File : s # t => \A x \in sets[s], y \in sets[t] : Precedes(x, y)
        BY OtherFirst DEF RestoreOps, Of, Tidying
    <2>4. \A op : op \in RestoreOps(File) <=> \E s \in File : op \in sets[s]
        BY OfSlots
    <2>5. seq = [i \in 1 .. n |-> seq[i]]
        OBVIOUS
    <2> HIDE DEF seq, sets, n
    <2>6. Block(Manager!FlattenSeq(seq), RestoreOps(File))
        <3>1. \A i \in 1 .. n : down[i] \in File /\ Block(seq[i], sets[down[i]])
            BY <1>2, <2>2
        <3>2. n \in Nat /\ \A i, j \in 1 .. n : i < j => down[i] # down[j]
            BY <1>2
        <3>3. \A s \in File : \E i \in 1 .. n : down[i] = s
            BY <1>2
        <3>4. Arranged(n, seq, File, down, sets, RestoreOps(File))
            BY <2>3, <2>4, <2>5, <3>1, <3>2, <3>3 DEF Arranged
        <3> QED
            BY <3>4, EachBlock
    <2> QED
        BY <2>1, <2>6
<1> QED
    BY <1>4, <1>5, <1>6, <1>7

LEMMA Two ==
    ASSUME NEW a \in Ops, NEW b \in Ops, Precedes(a, b)
    PROVE  Block(<<a, b>>, {a, b})
<1>1. <<a>> \o <<b>> = <<a, b>>
    <2>1. <<a>> \in Seq(Ops) /\ <<b>> \in Seq(Ops) /\ <<a, b>> \in Seq(Ops)
        OBVIOUS
    <2>2. /\ <<a>> \o <<b>> \in Seq(Ops) /\ Len(<<a>> \o <<b>>) = Len(<<a>>) + Len(<<b>>)
          /\ \A i \in 1 .. Len(<<a>>) + Len(<<b>>) :
                (<<a>> \o <<b>>)[i] = IF i <= Len(<<a>>) THEN <<a>>[i] ELSE <<b>>[i - Len(<<a>>)]
        BY <2>1, ConcatProperties
    <2>3. Len(<<a>>) = 1 /\ Len(<<b>>) = 1 /\ <<a>>[1] = a /\ <<b>>[1] = b
        OBVIOUS
    <2>4. Len(<<a, b>>) = 2 /\ <<a, b>>[1] = a /\ <<a, b>>[2] = b
        OBVIOUS
    <2> DEFINE c == <<a>> \o <<b>>
               d == <<a, b>>
    <2>5. c \in Seq(Ops) /\ d \in Seq(Ops) /\ Len(c) = Len(d) /\ \A i \in 1 .. Len(c) : c[i] = d[i]
        <3>1. (<<a>> \o <<b>>)[1] = a /\ (<<a>> \o <<b>>)[2] = b
            <4>1. 1 \in 1 .. 1 + 1 /\ 2 \in 1 .. 1 + 1 /\ 2 - 1 = 1
                OBVIOUS
            <4> QED
                BY <2>2, <2>3, <4>1
        <3>2. Len(c) = 2 /\ \A i \in 1 .. 2 : i = 1 \/ i = 2
            BY <2>2, <2>3
        <3> QED
            BY <2>1, <2>2, <2>4, <3>1, <3>2
    <2> HIDE DEF c, d
    <2>6. c = d
        BY <2>5, SeqEqual
    <2> QED
        BY <2>6 DEF c, d
<1>2. Block(<<a>> \o <<b>>, {a} \cup {b})
    BY One, Join
<1>3. {a} \cup {b} = {a, b}
    OBVIOUS
<1> QED
    BY <1>1, <1>2, <1>3

\* Nothing makes a phase, the pre-flight or what tidies up impossible.
LEMMA LaterFirst ==
    ASSUME NEW x, NEW y, x.do \notin Tidying, y.do \notin {"claim", "record", "unlink", "publish", "withdraw"}
    PROVE  Precedes(x, y)
<1>1. "erase" \in Tidying
    BY DEF Tidying
<1>2. y.do \notin Spent(x.do)
    BY DEF Spent
<1> QED
    BY <1>1, <1>2 DEF Precedes

CleanupOps == DropOps(File) \cup DropOps({Receipt}) \cup {Op("erase", Receipt)}

LEMMA CleanupBlock ==
    Block(Manager!Cleanup, CleanupOps) /\ \A x \in CleanupOps : x.do \in Tidying /\ x \in Ops
<1>1. \A x \in DropOps(File) \cup DropOps({Receipt}) : x.do \in Tidying \ {"erase"} /\ x \in Ops
    BY DropsTidy
<1>2. Op("erase", Receipt) \in Ops /\ Op("erase", Receipt).do \in Tidying
    BY OpsAre, OpFields, Slots DEF Tidying, Names
<1>3. Block(Manager!Drops(Receipt), DropOps({Receipt}))
    BY DropsBlock, Slots
<1>4. Block(Manager!PerSlot(1, Manager!Drops) \o Manager!Drops(Receipt), DropOps(File) \cup DropOps({Receipt}))
    <2>1. \A x \in DropOps(File), y \in DropOps({Receipt}) : Precedes(x, y)
        BY <1>1, TidyFirst
    <2> QED
        BY <1>3, <2>1, FileBlocks, Join
<1>5. Block(<<Op("erase", Receipt)>>, {Op("erase", Receipt)})
    BY <1>2, One
<1>6. Block((Manager!PerSlot(1, Manager!Drops) \o Manager!Drops(Receipt)) \o <<Op("erase", Receipt)>>, CleanupOps)
    <2>1. \A x \in DropOps(File) \cup DropOps({Receipt}), y \in {Op("erase", Receipt)} : Precedes(x, y)
        BY <1>1, <1>2, TidyFirst
    <2> QED
        BY <1>4, <1>5, <2>1, Join DEF CleanupOps
<1>7. Manager!Cleanup = (Manager!PerSlot(1, Manager!Drops) \o Manager!Drops(Receipt)) \o <<Op("erase", Receipt)>>
    BY OpIs, Slots DEF Manager!Cleanup
<1> QED
    BY <1>1, <1>2, <1>6, <1>7 DEF CleanupOps

RollBackOps == {Op("preflight", Receipt)} \cup RestoreOps(File)

LEMMA RollBackBlock == Block(Manager!RestoreFiles, RollBackOps)
<1>1. Op("preflight", Receipt) \in Ops /\ "preflight" \in Names \ (Tidying \cup {"unlink", "publish", "return"})
    BY OpsAre, Slots DEF Tidying, Names
<1>2. Block(<<Op("preflight", Receipt)>>, {Op("preflight", Receipt)})
    BY <1>1, One
<1>3. \A x \in {Op("preflight", Receipt)}, y \in RestoreOps(File) : Precedes(x, y)
    BY <1>1, FreeOps
<1>4. Block(<<Op("preflight", Receipt)>> \o Manager!PerSlotReversed(1, Manager!Restores), RollBackOps)
    BY <1>2, <1>3, FileBlocks, Join DEF RollBackOps
<1> QED
    BY <1>4, OpIs, Slots DEF Manager!RestoreFiles

ScriptOps ==
    {Op("base", Receipt), Op("writing", Receipt)} \cup ClaimOps(File) \cup {Op("files-claimed", Receipt)}
    \cup ReplaceOps(File) \cup {Op("live-written", Receipt)} \cup ClaimOps({Receipt})
    \cup Only(Had(Receipt), Op("unlink", Receipt)) \cup {Op("receipt-claimed", Receipt)}
    \cup {Op("publish", Receipt), Op("receipt-published", Receipt)} \cup {Op("receipt-committed", Receipt)}
    \cup CleanupOps

LEMMA ScriptBlock == Block(Manager!Script, ScriptOps)
<1> DEFINE Free == Names \ (Tidying \cup {"unlink", "publish", "return"})
           P(name) == Op(name, Receipt)
<1>1. /\ P("base") \in Ops /\ P("writing") \in Ops /\ P("files-claimed") \in Ops /\ P("live-written") \in Ops
      /\ P("receipt-claimed") \in Ops /\ P("publish") \in Ops /\ P("receipt-published") \in Ops
      /\ P("receipt-committed") \in Ops /\ P("unlink") \in Ops
    BY OpsAre, Slots DEF Names
<1>2. /\ "base" \in Free /\ "writing" \in Free /\ "files-claimed" \in Free /\ "live-written" \in Free
      /\ "receipt-claimed" \in Free /\ "receipt-published" \in Free /\ "receipt-committed" \in Free
    BY DEF Names, Tidying
<1>3. ASSUME NEW x, x.do \in Free \/ (x.slot \in File /\ x.do \notin Tidying), NEW y, y.slot = Receipt
      PROVE  Precedes(x, y)
    BY <1>3, FreeFirst, OtherFirst, Slots
<1>4. \A set : \A x \in ClaimOps(set) : x.do \in Free
    BY DEF ClaimOps, Of, Names, Tidying
<1>5. \A x \in ReplaceOps(File) : x.slot \in File /\ x.do \notin Tidying
    BY DEF ReplaceOps, Of, Tidying
<1> DEFINE a1 == <<P("base"), P("writing")>>                    A1 == {P("base"), P("writing")}
           a2 == a1 \o Manager!PerSlot(1, Manager!Claims)       A2 == A1 \cup ClaimOps(File)
           a3 == a2 \o <<P("files-claimed")>>                   A3 == A2 \cup {P("files-claimed")}
           a4 == a3 \o Manager!PerSlot(1, Manager!Replaces)     A4 == A3 \cup ReplaceOps(File)
           a5 == a4 \o <<P("live-written")>>                    A5 == A4 \cup {P("live-written")}
           a6 == a5 \o Manager!Claims(Receipt)                  A6 == A5 \cup ClaimOps({Receipt})
           u == Manager!When(Had(Receipt), P("unlink"))         U == Only(Had(Receipt), P("unlink"))
           a7 == a6 \o u                                        A7 == A6 \cup U
           a8 == a7 \o <<P("receipt-claimed")>>                 A8 == A7 \cup {P("receipt-claimed")}
           b == <<P("publish"), P("receipt-published")>>        B == {P("publish"), P("receipt-published")}
           a9 == a8 \o b                                        A9 == A8 \cup B
           a10 == a9 \o <<P("receipt-committed")>>              A10 == A9 \cup {P("receipt-committed")}
           a11 == a10 \o Manager!Cleanup                        A11 == A10 \cup CleanupOps
<1>11. Block(a1, A1) /\ \A x \in A1 : x.do \in Free
    <2>1. Precedes(P("base"), P("writing"))
        BY <1>2, FreeOps
    <2> QED
        BY <1>1, <1>2, <2>1, Two, OpFields
<1>12. Block(a2, A2) /\ \A x \in A2 : x.do \in Free
    <2>1. \A x \in A1, y \in ClaimOps(File) : Precedes(x, y)
        BY <1>11, FreeFirst
    <2> HIDE DEF a1, A1
    <2> QED
        BY <1>4, <1>11, <2>1, FileBlocks, Join
<1> HIDE DEF a1, A1
<1>13. Block(a3, A3) /\ \A x \in A3 : x.do \in Free
    <2> HIDE DEF a2, A2
    <2>1. \A x \in A2, y \in {P("files-claimed")} : Precedes(x, y)
        BY <1>12, FreeFirst
    <2>2. Block(<<P("files-claimed")>>, {P("files-claimed")})
        BY <1>1, One
    <2> QED
        BY <1>2, <1>12, <2>1, <2>2, OpFields, Join
<1> HIDE DEF a2, A2
<1> DEFINE Soon(x) == x.do \in Free \/ (x.slot \in File /\ x.do \notin Tidying)
<1>14. Block(a4, A4) /\ \A x \in A4 : Soon(x)
    <2> HIDE DEF a3, A3
    <2>1. \A x \in A3, y \in ReplaceOps(File) : Precedes(x, y)
        BY <1>13, FreeFirst
    <2>2. Block(a4, A4)
        BY <1>13, <2>1, FileBlocks, Join
    <2> QED
        BY <1>5, <1>13, <2>2
<1> HIDE DEF a3, A3
<1>15. Block(a5, A5) /\ \A x \in A5 : Soon(x)
    <2> HIDE DEF a4, A4
    <2>1. \A x \in A4, y \in {P("live-written")} : Precedes(x, y)
        BY <1>3, <1>14, OpFields
    <2>2. Block(<<P("live-written")>>, {P("live-written")})
        BY <1>1, One
    <2> QED
        BY <1>2, <1>14, <2>1, <2>2, OpFields, Join
<1> HIDE DEF a4, A4
<1>16. Block(a6, A6) /\ \A x \in A6 : Soon(x)
    <2> HIDE DEF a5, A5
    <2>1. \A y \in ClaimOps({Receipt}) : y.slot = Receipt
        BY DEF ClaimOps, Of
    <2>2. \A x \in A5, y \in ClaimOps({Receipt}) : Precedes(x, y)
        BY <1>3, <1>15, <2>1
    <2>3. Block(a6, A6)
        BY <1>15, <2>2, ClaimsBlock, Slots, Join
    <2> QED
        BY <1>4, <1>15, <2>3
<1> HIDE DEF a5, A5
<1>17. Block(a7, A7) /\ \A x \in A7 : Soon(x) \/ x = P("unlink")
    <2> HIDE DEF a6, A6
    <2>1. \A y \in U : y = P("unlink")
        BY DEF Only
    <2>2. \A x \in A6, y \in U : Precedes(x, y)
        BY <1>3, <1>16, <2>1, OpFields
    <2>3. Block(u, U)
        BY <1>1, OnlyBlock
    <2> HIDE DEF u, U
    <2> QED
        BY <1>16, <2>1, <2>2, <2>3, Join
<1> HIDE DEF a6, A6
<1>18. \A x : Soon(x) \/ x = P("unlink") \/ x = P("publish") => x.do \notin Tidying
    BY OpFields DEF Tidying
<1>19. /\ \A x \in A8 : Soon(x) \/ x = P("unlink")
       /\ Block(a8, A8)
    <2> HIDE DEF a7, A7
    <2>1. \A x \in A7 : Precedes(x, P("receipt-claimed"))
        BY <1>17, <1>18, OpFields, LaterFirst
    <2>2. Block(<<P("receipt-claimed")>>, {P("receipt-claimed")})
        BY <1>1, One
    <2> QED
        BY <1>2, <1>17, <2>1, <2>2, OpFields, Join
<1> HIDE DEF a7, A7
<1>20. Block(b, B)
    <2>1. Precedes(P("publish"), P("receipt-published"))
        BY <1>18, OpFields, LaterFirst
    <2> QED
        BY <1>1, <2>1, Two
<1>21. /\ \A x \in A9 : Soon(x) \/ x = P("unlink") \/ x = P("publish")
       /\ Block(a9, A9)
    <2> HIDE DEF a8, A8
    <2>1. Precedes(P("unlink"), P("publish"))
        <3>1. "publish" \notin Spent("unlink") /\ "unlink" \notin Tidying /\ "unlink" # "erase"
            BY SpentIs DEF Tidying
        <3> QED
            BY <3>1, OpFields DEF Precedes
    <2>2. \A x \in A8 : Precedes(x, P("publish"))
        BY <1>3, <1>19, <2>1, OpFields
    <2>3. \A x \in A8 : Precedes(x, P("receipt-published"))
        BY <1>18, <1>19, OpFields, LaterFirst
    <2>4. \A x \in A8, y \in B : Precedes(x, y)
        BY <2>2, <2>3
    <2>5. \A x \in B : Soon(x) \/ x = P("publish")
        BY <1>2, OpFields
    <2> HIDE DEF b, B
    <2> QED
        BY <1>19, <1>20, <2>4, <2>5, Join
<1> HIDE DEF a8, A8, b, B
<1>22. /\ \A x \in A10 : x.do \notin Tidying
       /\ Block(a10, A10)
    <2> HIDE DEF a9, A9
    <2>1. \A x \in A9 : Precedes(x, P("receipt-committed"))
        BY <1>18, <1>21, OpFields, LaterFirst
    <2>2. Block(<<P("receipt-committed")>>, {P("receipt-committed")})
        BY <1>1, One
    <2>3. P("receipt-committed").do \notin Tidying
        BY <1>2, OpFields
    <2> QED
        BY <1>18, <1>21, <2>1, <2>2, <2>3, Join
<1> HIDE DEF a9, A9
<1>23. Block(a11, A11)
    <2> HIDE DEF a10, A10
    <2>1. \A y \in CleanupOps : y.do \notin {"claim", "record", "unlink", "publish", "withdraw"}
        BY CleanupBlock DEF Tidying
    <2>2. \A x \in A10, y \in CleanupOps : Precedes(x, y)
        BY <1>22, <2>1, LaterFirst
    <2> QED
        BY <1>22, <2>2, CleanupBlock, Join
<1>24. a11 = Manager!Script
    BY OpIs, Slots, PlansAre
       DEF Manager!Script, Manager!When, a1, a2, a3, a4, a5, a6, a7, a8, a9, a10, b, Manager!Had, Manager!Before
<1>25. A11 = ScriptOps
    BY DEF ScriptOps, A1, A2, A3, A4, A5, A6, A7, A8, A9, A10, B
<1> QED
    BY <1>23, <1>24, <1>25

-----------------------------------------------------------------------------
(* What a command has left to do, and what it has left recoverable.        *)

Erase == Op("erase", Receipt)
Undoing == {"preflight", "withdraw", "return"}
\* What the plan of a slot lets be done of it.
Suits(op) ==
    /\ op.do \in {"claim", "record", "unlink", "publish", "withdraw", "return"} => Changed(op.slot)
    /\ op.do \in {"record", "unlink", "return"} => Had(op.slot)
    /\ op.do = "publish" => Gets(op.slot)
Line(ops) ==
    /\ ops \in Seq(Ops) /\ InOrder(ops)
    /\ \A op : Waits(ops, op) => Suits(op)
    /\ \A i \in DOMAIN ops : ops[i].do = "base" => i = 1

\* What is to be done still is done of a slot with the old file; what was done has the new one.
Forth(ops) ==
    /\ \A s \in Slot \ edited : public[s] =
            IF Waits(ops, Op("unlink", s)) THEN Before(s)
            ELSE IF Waits(ops, Op("publish", s)) THEN "none" ELSE After(s)
    /\ \A s \in Slot : Waits(ops, Op("unlink", s)) /\ Gets(s) => Waits(ops, Op("publish", s))
\* What is not to be restored still is the old file.
Back(ops) ==
    /\ \A s \in Slot \ edited :
            Waits(ops, Op("withdraw", s)) \/ Waits(ops, Op("return", s)) \/ public[s] = Before(s)
    /\ \A s \in Slot : Waits(ops, Op("withdraw", s)) /\ Had(s) => Waits(ops, Op("return", s))

Over == AllAfter /\ Tidy(todo)
Reach == \A s \in Slot \ edited : Had(s) => public[s] = "before" \/ s \in claim
\* The claims of the last revision that is complete.
Confirmed == IF half THEN IF Len(journal) = 1 THEN {} ELSE journal[Len(journal) - 1] ELSE Manager!Recorded
\* A repair recognises the file: an unrecorded claim by the name, a published file by its link.
Sound(s) ==
    /\ s \in claim /\ s \notin Manager!Recorded => public[s] = "before"
    /\ public[s] = "after" => s \in prepared
    /\ public[s] # "foreign"
\* A file is claimed, and its claim recorded, before it goes.
Claimed(ops) == \A s \in Slot : Changed(s) /\ Had(s) =>
    /\ Waits(ops, Op("claim", s)) \/ s \in claim
    /\ Waits(ops, Op("record", s)) \/ s \in Confirmed
    /\ Waits(ops, Op("claim", s)) \/ Waits(ops, Op("record", s)) => Waits(ops, Op("unlink", s))

Doing ==
    /\ mode \in {"new", "commit", "undo", "recover", "idle"}
    /\ IF mode \in {"new", "idle"} THEN todo = <<>> ELSE Waits(todo, Erase)
    /\ mode = "commit" => \A op : Waits(todo, op) => op.do \notin Undoing
    /\ mode \in {"undo", "recover"} => \A op : Waits(todo, op) => op.do \in Undoing \cup Tidying
Ledger == journal \in Seq(SUBSET Slot) /\ half \in BOOLEAN /\ (half => journal # <<>>)
Shape ==
    /\ Named /\ Line(todo) /\ Doing /\ Ledger
    /\ kind[Receipt] \in {"replace", "create"}
    /\ claim \subseteq {s \in Slot : Had(s)}
    /\ edits = 0 => edited = {} /\ spoiled = {}
    /\ \A s \in Slot : public[s] = "before" => Had(s)
    /\ \A s \in Slot \ edited : ~Changed(s) => public[s] = Before(s)
\* Until the links are removed: what is claimed and what the journal has of it.
Writing ==
    /\ Claimed(todo) /\ prepared = {s \in Slot : Gets(s)}
    /\ half => /\ Head(todo).do \in Manager!Journaled
               /\ Manager!Recorded =
                    Confirmed \cup (IF Head(todo).do = "record" THEN {Head(todo).slot} ELSE {})
               /\ Len(journal) = 1 => Head(todo).do = "base"
Committing ==
    /\ Forth(todo)
    /\ journal = <<>> => Head(todo).do = "base" /\ edits = 0
    /\ Head(todo).do = "base" => AllBefore
    /\ Head(todo).do \notin Tidying => Writing
Stage ==
    /\ mode = "new" => AllBefore /\ journal = <<>> /\ ~half /\ claim = {} /\ edits = 0
    /\ mode = "commit" => Committing
    /\ mode \in {"undo", "recover"} => journal # <<>> /\ (Back(todo) \/ Over)
    /\ mode = "idle" /\ journal = <<>> => AllBefore \/ AllAfter
Cover == Over \/ (Reach /\ (edits = 0 => \A s \in Slot : Sound(s)))
WholeInv == Shape /\ Stage /\ Cover

LEMMA Onward ==
    ASSUME Line(todo), todo # <<>>
    PROVE  /\ Line(Tail(todo))
           /\ Head(todo) \in Ops /\ Head(todo) = Op(Head(todo).do, Head(todo).slot)
           /\ Head(todo).slot \in Slot /\ Suits(Head(todo))
           /\ \A op : Waits(todo, op) <=> op = Head(todo) \/ Waits(Tail(todo), op)
           /\ \A op : Waits(Tail(todo), op) => Precedes(Head(todo), op)
           /\ \A op : Waits(Tail(todo), op) => op.do # "base"
           /\ Tail(todo) # <<>> => Waits(Tail(todo), Head(Tail(todo)))
           /\ Len(todo) = 1 <=> Tail(todo) = <<>>
<1>1. todo \in Seq(Ops) /\ InOrder(todo)
    BY DEF Line
<1>2. /\ Head(todo) \in Ops /\ Head(todo) = todo[1] /\ 1 \in DOMAIN todo
      /\ Head(todo) = Op(Head(todo).do, Head(todo).slot) /\ Head(todo).slot \in Slot
      /\ Tail(todo) \in Seq(Ops) /\ DOMAIN todo = 1 .. Len(todo) /\ Len(todo) \in Nat
      /\ DOMAIN Tail(todo) = 1 .. Len(todo) - 1
      /\ \A i \in 1 .. Len(todo) - 1 : Tail(todo)[i] = todo[i + 1]
    BY <1>1, HeadOfTodo
<1>3. ASSUME NEW op PROVE Waits(todo, op) <=> op = Head(todo) \/ Waits(Tail(todo), op)
    <2>1. ASSUME Waits(todo, op), op # Head(todo) PROVE Waits(Tail(todo), op)
        <3>1. PICK i \in 1 .. Len(todo) : todo[i] = op
            BY <1>2, <2>1 DEF Waits
        <3>2. i # 1 /\ i - 1 \in 1 .. Len(todo) - 1 /\ i - 1 + 1 = i
            BY <1>2, <2>1, <3>1
        <3> QED
            BY <1>2, <3>1, <3>2 DEF Waits
    <2>2. ASSUME Waits(Tail(todo), op) PROVE Waits(todo, op)
        <3>1. PICK i \in 1 .. Len(todo) - 1 : Tail(todo)[i] = op
            BY <1>2, <2>2 DEF Waits
        <3>2. i + 1 \in 1 .. Len(todo)
            BY <1>2
        <3> QED
            BY <1>2, <3>1, <3>2 DEF Waits
    <2> QED
        BY <1>2, <2>1, <2>2 DEF Waits
<1>4. ASSUME NEW op, Waits(Tail(todo), op) PROVE Precedes(Head(todo), op) /\ op.do # "base"
    <2>1. PICK i \in 1 .. Len(todo) - 1 : Tail(todo)[i] = op
        BY <1>2, <1>4 DEF Waits
    <2>2. i + 1 \in 1 .. Len(todo) /\ 1 < i + 1 /\ todo[i + 1] = op
        BY <1>2, <2>1
    <2> QED
        BY <1>1, <1>2, <2>2 DEF InOrder, Line
<1>5. Line(Tail(todo))
    <2>1. InOrder(Tail(todo))
        <3> SUFFICES ASSUME NEW i \in 1 .. Len(todo) - 1, NEW j \in 1 .. Len(todo) - 1, i < j
                     PROVE  Precedes(Tail(todo)[i], Tail(todo)[j])
            BY <1>2 DEF InOrder
        <3>1. i + 1 \in 1 .. Len(todo) /\ j + 1 \in 1 .. Len(todo) /\ i + 1 < j + 1
            BY <1>2
        <3> QED
            BY <1>1, <1>2, <3>1 DEF InOrder
    <2>2. \A i \in DOMAIN Tail(todo) : Waits(Tail(todo), Tail(todo)[i])
        BY DEF Waits
    <2> QED
        BY <1>2, <1>3, <1>4, <2>1, <2>2 DEF Line
<1>6. Suits(Head(todo))
    BY <1>3 DEF Line
<1>7. Tail(todo) # <<>> => Waits(Tail(todo), Head(Tail(todo)))
    <2> SUFFICES ASSUME Tail(todo) # <<>> PROVE Waits(Tail(todo), Head(Tail(todo)))
        OBVIOUS
    <2>1. Head(Tail(todo)) = Tail(todo)[1] /\ Len(Tail(todo)) \in Nat \ {0}
        BY <1>2, HeadTailProperties, LenProperties, EmptySeq
    <2>2. 1 \in DOMAIN Tail(todo)
        BY <1>2, <2>1, LenProperties
    <2> QED
        BY <2>1, <2>2 DEF Waits
<1>8. Len(todo) = 1 <=> Tail(todo) = <<>>
    <2>1. Len(Tail(todo)) = Len(todo) - 1
        BY <1>1, HeadTailProperties
    <2>2. Tail(todo) = <<>> <=> Len(Tail(todo)) = 0
        BY <1>2, EmptySeq
    <2> QED
        BY <1>2, <2>1, <2>2
<1> QED
    BY <1>2, <1>3, <1>4, <1>5, <1>6, <1>7, <1>8

LEMMA LineOf ==
    ASSUME NEW ops, NEW set, Block(ops, set), \A op \in set : Suits(op),
           \A i \in DOMAIN ops : ops[i].do = "base" => i = 1
    PROVE  Line(ops)
BY DEF Line, Block

LEMMA NoBase ==
    ASSUME NEW ops, NEW set, Block(ops, set), \A op \in set : Suits(op) /\ op.do # "base"
    PROVE  Line(ops)
<1>1. \A i \in DOMAIN ops : Waits(ops, ops[i])
    BY DEF Waits
<1> QED
    BY <1>1 DEF Line, Block

\* Once the links are being removed there is nothing else left to do.
LEMMA TidyOn ==
    ASSUME Line(todo), todo # <<>>, Head(todo).do \in Tidying
    PROVE  Tidy(todo) /\ Tidy(Tail(todo))
BY Onward DEF Tidy, Precedes

LEMMA NothingWaits == /\ \A op : ~Waits(<<>>, op)
                      /\ Tidy(<<>>) /\ Line(<<>>)
<1>1. \A op : ~Waits(<<>>, op)
    BY DEF Waits
<1> QED
    BY <1>1, Empty DEF Line, Block, Tidy

LEMMA ManagerIs ==
    /\ \A s, inode : Manager!Intact(s, inode) <=> Intact(s, inode)
    /\ \A s, inode : Manager!Holds(s, inode) <=> Holds(s, inode)
    /\ \A name, s : Manager!Pending(name, s) <=> Waits(todo, Op(name, s))
    /\ Manager!AllBefore <=> AllBefore
    /\ Manager!AllAfter <=> AllAfter
<1>1. \A s, inode : Manager!Intact(s, inode) <=> Intact(s, inode)
    BY DEF Manager!Intact, Intact
<1>2. \A s, inode : Manager!Holds(s, inode) <=> Holds(s, inode)
    BY <1>1 DEF Manager!Holds, Holds
<1>3. \A name, s : Manager!Pending(name, s) <=> Waits(todo, Op(name, s))
    BY OpIs DEF Manager!Pending, Waits
<1>4. (Manager!AllBefore <=> AllBefore) /\ (Manager!AllAfter <=> AllAfter)
    BY ManagerPlans, Slots DEF Manager!AllBefore, AllBefore, Manager!AllAfter, AllAfter
<1> QED
    BY <1>1, <1>2, <1>3, <1>4

LEMMA PlanFacts ==
    /\ \A s : Before(s) \in {"none", "before"} /\ (Had(s) <=> Before(s) = "before")
    /\ \A s : Gets(s) => Changed(s) /\ After(s) = "after"
    /\ \A s : Changed(s) /\ ~Gets(s) => After(s) = "none"
    /\ \A s : ~Changed(s) => Before(s) = "before" /\ After(s) = "before"
    /\ \A s : kind[s] \in {"replace", "create"} => Changed(s) /\ Gets(s)
BY DEF Before, After, Had, Gets, Changed

LEMMA PlansStay ==
    ASSUME UNCHANGED kind
    PROVE  /\ \A s : Before(s)' = Before(s) /\ After(s)' = After(s)
           /\ \A s : (Had(s)' <=> Had(s)) /\ (Gets(s)' <=> Gets(s)) /\ (Changed(s)' <=> Changed(s))
           /\ \A op : Suits(op)' <=> Suits(op)
<1>1. /\ \A s : Before(s)' = Before(s) /\ After(s)' = After(s)
      /\ \A s : (Had(s)' <=> Had(s)) /\ (Gets(s)' <=> Gets(s)) /\ (Changed(s)' <=> Changed(s))
    BY DEF Before, After, Had, Gets, Changed
<1>2. \A op : Suits(op)' <=> Suits(op)
    BY <1>1 DEF Suits
<1> QED
    BY <1>1, <1>2

\* Before its last operation a command goes on as it was.
LEMMA Goes ==
    ASSUME Shape, todo # <<>>, Head(todo).do # "erase", todo' = Tail(todo),
           mode' = IF Len(todo) = 1 THEN "idle" ELSE mode
    PROVE  mode' = mode /\ mode \in {"commit", "undo", "recover"} /\ Doing'
<1>1. mode \in {"commit", "undo", "recover"} /\ Waits(todo, Erase)
    BY DEF Shape, Doing
<1>2. Head(todo) # Erase
    BY OpFields DEF Erase
<1>3. Waits(Tail(todo), Erase) /\ \A op : Waits(Tail(todo), op) => Waits(todo, op)
    BY <1>1, <1>2, Onward DEF Shape
<1>4. Tail(todo) # <<>>
    BY <1>3, NothingWaits
<1>5. mode' = mode
    BY <1>4, Onward DEF Shape
<1> QED
    BY <1>1, <1>3, <1>5 DEF Shape, Doing

LEMMA ShapeOn ==
    ASSUME Shape, UNCHANGED <<kind, spoiled, edited, edits>>, Doing', Ledger', Line(todo'),
           claim' \subseteq {s \in Slot : Had(s)}, public' \in [Slot -> Inodes],
           \A s \in Slot : public'[s] = "before" => Had(s),
           \A s \in Slot : public'[s] = public[s] \/ Changed(s)
    PROVE  Shape'
<1>1. Named'
    BY DEF Shape, Named
<1>2. Line(todo)'
    BY PlansStay DEF Line
<1>3. /\ \A s \in Slot : public'[s] = "before" => Had(s)'
      /\ \A s \in Slot \ edited' : ~Changed(s)' => public'[s] = Before(s)'
      /\ claim' \subseteq {s \in Slot : Had(s)'}
    BY PlansStay DEF Shape
<1> QED
    BY <1>1, <1>2, <1>3 DEF Shape

LEMMA BeforeCovers == Shape /\ AllBefore => Cover
<1> SUFFICES ASSUME Shape, AllBefore PROVE Reach /\ (edits = 0 => \A s \in Slot : Sound(s))
    BY DEF Cover
<1>1. Reach
    BY PlanFacts DEF AllBefore, Reach
<1>2. ASSUME edits = 0, NEW s \in Slot PROVE Sound(s)
    <2>1. public[s] = Before(s)
        BY <1>2 DEF AllBefore, Shape
    <2>2. s \in claim => Had(s)
        BY DEF Shape
    <2> QED
        BY <2>1, <2>2, PlanFacts DEF Sound
<1> QED
    BY <1>1, <1>2

\* A commit whose links are being removed has made every file the new one; an undo the old one.
LEMMA ForthIsOver == ASSUME Forth(todo), Tidy(todo) PROVE AllAfter
<1>1. \A s : ~Waits(todo, Op("unlink", s)) /\ ~Waits(todo, Op("publish", s))
    BY OpFields DEF Tidy, Tidying
<1> QED
    BY <1>1 DEF Forth, AllAfter

LEMMA BackIsOver == ASSUME Back(todo), Tidy(todo) PROVE AllBefore
<1>1. \A s : ~Waits(todo, Op("withdraw", s)) /\ ~Waits(todo, Op("return", s))
    BY OpFields DEF Tidy, Tidying
<1> QED
    BY <1>1 DEF Back, AllBefore

\* What a step leaves that touches no public file.
LEMMA FilesStay ==
    ASSUME UNCHANGED <<public, kind, edited>>
    PROVE  /\ (AllBefore' <=> AllBefore) /\ (AllAfter' <=> AllAfter)
           /\ todo' = todo => (Forth(todo)' <=> Forth(todo)) /\ (Back(todo)' <=> Back(todo))
<1>1. (AllBefore' <=> AllBefore) /\ (AllAfter' <=> AllAfter)
    BY PlansStay DEF AllBefore, AllAfter
<1>2. ASSUME todo' = todo PROVE (Forth(todo)' <=> Forth(todo)) /\ (Back(todo)' <=> Back(todo))
    BY <1>2, PlansStay DEF Forth, Back
<1> QED
    BY <1>1, <1>2

\* The same, said of a state and of the next.
LEMMA TidyIs ==
    /\ AllAfter /\ Tidy(todo) => Forth(todo) /\ Over
    /\ AllBefore /\ Tidy(todo) => Back(todo)
<1>1. ASSUME Tidy(todo) PROVE \A s : /\ ~Waits(todo, Op("unlink", s)) /\ ~Waits(todo, Op("publish", s))
                                     /\ ~Waits(todo, Op("withdraw", s)) /\ ~Waits(todo, Op("return", s))
    BY <1>1, OpFields DEF Tidy, Tidying
<1> QED
    BY <1>1 DEF Forth, Back, AllAfter, AllBefore, Over

LEMMA TidyNext ==
    /\ AllAfter' /\ Tidy(todo)' => Forth(todo)' /\ Over'
    /\ AllBefore' /\ Tidy(todo)' => Back(todo)'
    /\ Shape' /\ AllBefore' => Cover'
BY TidyIs, BeforeCovers, PTL

\* While the links are removed the files are all old or all new.
LEMMA Settled ==
    ASSUME WholeInv, todo # <<>>, Head(todo).do \in Tidying
    PROVE  /\ mode \in {"commit", "undo", "recover"} /\ (mode = "commit" => AllAfter /\ journal # <<>>)
           /\ AllAfter \/ AllBefore
           /\ mode # "commit" => journal # <<>>
<1>1. mode \in {"commit", "undo", "recover"} /\ Tidy(todo)
    BY TidyOn DEF WholeInv, Shape, Doing
<1>2. CASE mode = "commit"
    BY <1>1, <1>2, ForthIsOver DEF WholeInv, Stage, Committing, Tidying
<1>3. CASE mode # "commit"
    BY <1>1, <1>3, BackIsOver DEF WholeInv, Stage, Over
<1> QED
    BY <1>1, <1>2, <1>3

\* A step that removes a link or a revision and leaves the command running.
LEMMA TidyStep ==
    ASSUME WholeInv, todo # <<>>, Head(todo).do \in Tidying, UNCHANGED <<public, kind, spoiled, edited, edits>>,
           Doing', mode' = mode, todo' \in {todo, Tail(todo)}, claim' \subseteq claim, Ledger', journal' # <<>>
    PROVE  WholeInv'
<1>1. Tidy(todo') /\ Line(todo') /\ mode \in {"commit", "undo", "recover"} /\ (AllAfter \/ AllBefore)
      /\ (mode = "commit" => AllAfter)
    BY TidyOn, Onward, Settled DEF WholeInv, Shape
<1>2. Shape'
    BY <1>1, ShapeOn DEF WholeInv, Shape, Named
<1>3. /\ Tidy(todo)' /\ (AllAfter' <=> AllAfter) /\ (AllBefore' <=> AllBefore)
    BY <1>1, FilesStay DEF Tidy
<1>4. Cover'
    BY <1>1, <1>2, <1>3, TidyNext DEF Cover
<1>5. ASSUME mode = "commit" PROVE Committing'
    <2>1. Forth(todo)'
        BY <1>1, <1>3, <1>5, TidyNext
    <2>2. todo' # <<>>
        BY <1>1, NothingWaits DEF Doing
    <2>3. Head(todo').do \in Tidying
        <3>1. Waits(todo, Head(todo)) /\ (Tail(todo) # <<>> => Waits(Tail(todo), Head(Tail(todo))))
            BY Onward DEF WholeInv, Shape
        <3> QED
            BY <1>1, <2>2, <3>1 DEF Tidy
    <2> QED
        BY <2>1, <2>3 DEF Committing, Tidying
<1>6. ASSUME mode # "commit" PROVE Back(todo)' \/ Over'
    BY <1>1, <1>3, <1>6, TidyNext
<1> QED
    BY <1>1, <1>2, <1>4, <1>5, <1>6 DEF WholeInv, Stage

\* A command that ends, done or not.
LEMMA Halts ==
    ASSUME WholeInv, todo' = <<>>, mode' = "idle", UNCHANGED <<public, claim, kind, spoiled, edited, edits>>,
           Ledger', journal' = <<>> => AllBefore \/ AllAfter, Shape' => Cover'
    PROVE  WholeInv'
<1>1. Doing' /\ Line(todo')
    BY NothingWaits DEF Doing
<1>2. Shape'
    BY <1>1, ShapeOn DEF WholeInv, Shape, Named
<1>3. Stage'
    BY FilesStay DEF Stage
<1> QED
    BY <1>2, <1>3 DEF WholeInv

\* The journal is there unless no file was changed yet.
LEMMA NoJournal ==
    ASSUME WholeInv, todo # <<>>, journal = <<>>
    PROVE  mode = "commit" /\ Head(todo).do = "base" /\ AllBefore /\ edits = 0
BY DEF WholeInv, Shape, Doing, Stage, Committing

LEMMA Stops ==
    ASSUME WholeInv, todo # <<>>, Manager!Stop, UNCHANGED <<links, users, ledger>>
    PROVE  WholeInv'
<1>1. /\ todo' = <<>> /\ mode' = "idle" /\ UNCHANGED <<public, claim, prepared, kind, spoiled, edited, edits>>
      /\ UNCHANGED <<journal, half>>
    BY DEF Manager!Stop, links, users, ledger
<1>2. Ledger'
    BY <1>1 DEF WholeInv, Shape, Ledger
<1>3. journal' = <<>> => AllBefore
    BY <1>1, NoJournal
<1>4. Cover'
    <2>1. CASE Over
        <3>1. AllAfter' /\ Tidy(todo)'
            BY <1>1, <2>1, FilesStay, NothingWaits DEF Over, Tidy
        <3> QED
            BY <3>1 DEF Cover, Over
    <2>2. CASE Reach /\ (edits = 0 => \A s \in Slot : Sound(s))
        <3>1. Reach'
            BY <1>1, <2>2, PlansStay DEF Reach
        <3>2. edits' = 0 => \A s \in Slot : Sound(s)'
            BY <1>1, <2>2 DEF Sound, Manager!Recorded
        <3> QED
            BY <3>1, <3>2 DEF Cover
    <2> QED
        BY <2>1, <2>2 DEF WholeInv, Cover
<1> QED
    BY <1>1, <1>2, <1>3, <1>4, Halts

LEMMA RunDoes ==
    ASSUME NEW names, Manager!Run(names)
    PROVE  /\ todo # <<>> /\ Head(todo).do \in names /\ Manager!Checked(Head(todo))
           /\ todo' = Tail(todo) /\ mode' = IF Len(todo) = 1 THEN "idle" ELSE mode
           /\ UNCHANGED <<kind, spoiled, edited, edits, journal, half>> /\ Manager!At = Head(todo).slot
BY DEF Manager!Run, Manager!Due, Manager!Proceed, Manager!users, Manager!ledger, Manager!At

LEMMA LedgerStays == ASSUME Ledger, UNCHANGED <<journal, half>> PROVE Ledger'
BY DEF Ledger

LEMMA WholeDrop == ASSUME WholeInv, Manager!DropAuxiliary PROVE WholeInv'
<1>1. /\ todo # <<>> /\ Head(todo).do \in {"drop-claim", "drop-prepared"}
      /\ todo' = Tail(todo) /\ mode' = IF Len(todo) = 1 THEN "idle" ELSE mode
      /\ UNCHANGED <<kind, spoiled, edited, edits, journal, half>>
      /\ claim' \subseteq claim /\ UNCHANGED public
    <2>1. Manager!Run({"drop-claim", "drop-prepared"}) /\ Manager!Drop(Head(todo))
        BY DEF Manager!DropAuxiliary
    <2>2. claim' \subseteq claim /\ UNCHANGED public
        BY <2>1 DEF Manager!Drop
    <2> QED
        BY <2>1, <2>2, RunDoes
<1>2. Head(todo).do \in Tidying /\ Head(todo).do # "erase"
    BY <1>1 DEF Tidying
<1>3. Ledger'
    BY <1>1, LedgerStays DEF WholeInv, Shape
<1>4. mode' = mode /\ Doing'
    BY <1>1, <1>2, Goes DEF WholeInv
<1>5. journal' # <<>>
    BY <1>1, <1>2, Settled
<1> QED
    BY <1>1, <1>2, <1>3, <1>4, <1>5, TidyStep

LEMMA WholeEraseAnchor == ASSUME WholeInv, Manager!EraseAnchor PROVE WholeInv'
<1>1. /\ todo # <<>> /\ Head(todo).do \in Tidying /\ half' = TRUE
      /\ UNCHANGED <<public, claim, kind, spoiled, edited, edits, mode, todo, journal>>
    BY DEF Manager!EraseAnchor, Manager!Due, Manager!links, Manager!users, Manager!command, Tidying
<1>2. journal' # <<>>
    BY <1>1, Settled
<1>3. Ledger'
    BY <1>1, <1>2 DEF WholeInv, Shape, Ledger
<1>4. Doing'
    BY <1>1 DEF WholeInv, Shape, Doing
<1> QED
    BY <1>1, <1>2, <1>3, <1>4, TidyStep

LEMMA FrontIs ==
    ASSUME Ledger, journal # <<>>
    PROVE  /\ Manager!Front(journal) \in Seq(SUBSET Slot) /\ Len(journal) \in Nat \ {0}
           /\ Manager!Front(journal) = <<>> <=> Len(journal) = 1
           /\ Manager!Last(journal) = journal[Len(journal)]
           /\ Len(journal) # 1 => Manager!Last(Manager!Front(journal)) = journal[Len(journal) - 1]
<1> DEFINE n == Len(journal)
           front == SubSeq(journal, 1, n - 1)
<1>1. journal \in Seq(SUBSET Slot) /\ n \in Nat \ {0}
    BY LenProperties, EmptySeq DEF Ledger
<1>2. Manager!Front(journal) = front /\ \A s : Manager!Last(s) = s[Len(s)]
    BY DEF Manager!Front, Manager!Last
<1>3. /\ front \in Seq(SUBSET Slot) /\ Len(front) = n - 1 /\ \A i \in 1 .. n - 1 : front[i] = journal[i]
    <2>1. 1 \in 1 .. n + 1 /\ n - 1 \in 1 - 1 .. n
        BY <1>1
    <2>2. /\ n - 1 - 1 + 1 = n - 1 /\ 1 <= n - 1 + 1
          /\ \A i \in 1 .. n - 1 : 1 + i - 1 = i
        BY <1>1
    <2> HIDE DEF n
    <2>3. /\ SubSeq(journal, 1, n - 1) \in Seq(SUBSET Slot)
          /\ Len(SubSeq(journal, 1, n - 1)) = IF 1 <= n - 1 THEN n - 1 - 1 + 1 ELSE 0
          /\ \A i \in 1 .. n - 1 - 1 + 1 : SubSeq(journal, 1, n - 1)[i] = journal[1 + i - 1]
        BY <1>1, <2>1, SubSeqProperties DEF n
    <2> QED
        BY <1>1, <2>2, <2>3
<1> HIDE DEF front, n
<1>4. front = <<>> <=> n = 1
    BY <1>1, <1>3, EmptySeq
<1>5. n # 1 => n - 1 \in 1 .. n - 1
    BY <1>1
<1> QED
    BY <1>1, <1>2, <1>3, <1>4, <1>5 DEF n

LEMMA WholeEraseData == ASSUME WholeInv, Manager!EraseData PROVE WholeInv'
<1>1. /\ todo # <<>> /\ Head(todo).do = "erase" /\ half /\ half' = FALSE /\ journal' = Manager!Front(journal)
      /\ IF Len(journal) = 1 THEN todo' = Tail(todo) /\ mode' = IF Len(todo) = 1 THEN "idle" ELSE mode
         ELSE UNCHANGED <<todo, mode>>
      /\ UNCHANGED <<public, claim, kind, spoiled, edited, edits>>
    BY DEF Manager!EraseData, Manager!Due, Manager!Proceed, Manager!links, Manager!users, Manager!command
<1>2. Head(todo).do \in Tidying /\ journal # <<>> /\ (AllAfter \/ AllBefore)
    BY <1>1, Settled DEF Tidying, WholeInv, Shape, Ledger
<1>3. Ledger' /\ (journal' = <<>> <=> Len(journal) = 1)
    BY <1>1, <1>2, FrontIs DEF WholeInv, Shape, Ledger
<1>4. CASE Len(journal) = 1
    <2>1. Tail(todo) = <<>>
        BY <1>1, Onward DEF WholeInv, Shape, Precedes
    <2>2. Len(todo) = 1
        BY <1>1, <2>1, Onward DEF WholeInv, Shape
    <2>3. todo' = <<>> /\ mode' = "idle"
        BY <1>1, <1>4, <2>1, <2>2
    <2>4. Shape' => Cover'
        <3>1. Tidy(todo)'
            BY <2>3, NothingWaits DEF Tidy
        <3> QED
            BY <1>1, <1>2, <3>1, FilesStay, TidyNext DEF Cover
    <2> QED
        BY <1>1, <1>2, <1>3, <2>3, <2>4, Halts
<1>5. CASE Len(journal) # 1
    <2>1. Doing'
        BY <1>1, <1>5 DEF WholeInv, Shape, Doing
    <2> QED
        BY <1>1, <1>2, <1>3, <1>5, <2>1, TidyStep
<1> QED
    BY <1>4, <1>5

LEMMA WholeEdit == ASSUME WholeInv, Manager!Edit PROVE WholeInv'
<1>1. Manager!UserEdit /\ journal # <<>> /\ UNCHANGED <<journal, half>>
    BY DEF Manager!Edit, Manager!ledger
<1>2. PICK s \in Slot : /\ edited' = edited \cup {s}
                        /\ \/ \E inode \in {"none", "foreign"} : public' = [public EXCEPT ![s] = inode]
                           \/ UNCHANGED public
    BY <1>1, Slots DEF Manager!UserEdit
<1>3. UNCHANGED <<kind, claim, prepared, todo, mode>> /\ edits' = edits + 1
    BY <1>1 DEF Manager!UserEdit, Manager!command
<1>4. public \in [Slot -> Inodes] /\ edits \in Nat /\ edits' \in Nat /\ edits' # 0
    BY <1>3 DEF WholeInv, Shape, Named
<1>5. /\ public' \in [Slot -> Inodes] /\ \A t \in Slot : public'[t] = "before" => public[t] = "before"
      /\ \A t \in Slot \ edited' : t \in Slot \ edited /\ public'[t] = public[t]
    BY <1>2, <1>4 DEF Inodes
<1>6. Shape'
    <2>1. Line(todo)' /\ Doing' /\ Ledger'
        BY <1>1, <1>3, PlansStay DEF WholeInv, Shape, Line, Doing, Ledger
    <2>2. claim' \subseteq {t \in Slot : Had(t)'}
        BY <1>3, PlansStay DEF WholeInv, Shape
    <2>3. /\ \A t \in Slot : public'[t] = "before" => Had(t)'
          /\ \A t \in Slot \ edited' : ~Changed(t)' => public'[t] = Before(t)'
        BY <1>3, <1>5, PlansStay DEF WholeInv, Shape
    <2> QED
        BY <1>3, <1>4, <1>5, <2>1, <2>2, <2>3 DEF WholeInv, Shape, Named
<1>7. (AllBefore => AllBefore') /\ (AllAfter => AllAfter')
    BY <1>3, <1>5, PlansStay DEF AllBefore, AllAfter
<1>8. (Forth(todo) => Forth(todo)') /\ (Back(todo) => Back(todo)')
    BY <1>3, <1>5, PlansStay DEF Forth, Back
<1>9. (Over => Over') /\ (Reach => Reach')
    BY <1>3, <1>5, <1>7, PlansStay DEF Over, Reach, Tidy
<1>10. Writing => Writing'
    BY <1>1, <1>3, PlansStay DEF Writing, Claimed, Confirmed, Manager!Recorded
<1>11. Stage'
    BY <1>1, <1>3, <1>7, <1>8, <1>9, <1>10 DEF WholeInv, Stage, Committing
<1>12. Cover'
    BY <1>4, <1>9 DEF WholeInv, Cover
<1> QED
    BY <1>6, <1>11, <1>12 DEF WholeInv

-----------------------------------------------------------------------------
(* A commit.                                                               *)

\* What is left of the operations of a slot.
LEMMA OnwardOps ==
    ASSUME Line(todo), todo # <<>>, NEW do, do = Head(todo).do, NEW at, at = Head(todo).slot
    PROVE  /\ \A name, s : Waits(todo, Op(name, s)) <=> (name = do /\ s = at) \/ Waits(Tail(todo), Op(name, s))
           /\ \A name : Waits(Tail(todo), Op(name, at)) => name \notin Spent(do)
<1>1. \A name, s : Op(name, s) = Head(todo) <=> name = do /\ s = at
    BY Onward, SameOp
<1>2. \A name : Waits(Tail(todo), Op(name, at)) => name \notin Spent(do)
    BY Onward, OpFields DEF Precedes
<1> QED
    BY <1>1, <1>2, Onward

LEMMA InCommit ==
    ASSUME WholeInv, todo # <<>>, Head(todo).do \notin Tidying \cup Undoing
    PROVE  /\ mode = "commit" /\ Committing /\ Forth(todo) /\ Writing /\ Claimed(todo)
           /\ Reach /\ (edits = 0 => \A s \in Slot : Sound(s))
           /\ prepared = {s \in Slot : Gets(s)}
           /\ Head(todo).do \notin Manager!Journaled => ~half /\ journal # <<>> /\ Confirmed = Manager!Recorded
<1>1. Waits(todo, Head(todo))
    BY Onward DEF WholeInv, Shape
<1>2. mode = "commit"
    BY <1>1 DEF WholeInv, Shape, Doing
<1>3. Committing /\ Forth(todo) /\ Writing /\ Claimed(todo) /\ prepared = {s \in Slot : Gets(s)}
    BY <1>2 DEF WholeInv, Stage, Committing, Writing
<1>4. ~Over
    BY <1>1 DEF Over, Tidy
<1>5. ASSUME Head(todo).do \notin Manager!Journaled
      PROVE  ~half /\ journal # <<>> /\ Confirmed = Manager!Recorded
    <2>1. Head(todo).do # "base" /\ ~half
        BY <1>3, <1>5 DEF Manager!Journaled, Manager!Phase, Writing
    <2> QED
        BY <1>3, <2>1 DEF Committing, Confirmed
<1> QED
    BY <1>2, <1>3, <1>4, <1>5 DEF WholeInv, Cover

LEMMA CommitOn ==
    ASSUME WholeInv, todo # <<>>, Head(todo).do \notin Tidying \cup Undoing, todo' = Tail(todo), mode' = mode,
           Shape', UNCHANGED <<kind, edited, prepared>>, journal' # <<>>, ~half',
           Forth(todo)', Claimed(todo)', Cover'
    PROVE  WholeInv'
<1>1. mode = "commit" /\ prepared = {s \in Slot : Gets(s)}
    BY InCommit
<1>2. todo' # <<>>
    BY <1>1, NothingWaits DEF Shape, Doing
<1>3. Head(todo').do # "base"
    BY <1>2, Onward DEF WholeInv, Shape
<1>4. prepared' = {s \in Slot : Gets(s)'}
    BY <1>1, PlansStay
<1>5. Committing'
    BY <1>3, <1>4 DEF Committing, Writing
<1> QED
    BY <1>1, <1>5 DEF WholeInv, Stage

LEMMA ForthOn ==
    ASSUME Line(todo), todo # <<>>, Head(todo).do \notin {"unlink", "publish"}, todo' = Tail(todo), Forth(todo),
           UNCHANGED <<public, kind, edited>>
    PROVE  Forth(todo)'
<1>1. \A s : /\ Waits(todo, Op("unlink", s)) <=> Waits(todo', Op("unlink", s))
             /\ Waits(todo, Op("publish", s)) <=> Waits(todo', Op("publish", s))
    BY OnwardOps
<1> QED
    BY <1>1, PlansStay DEF Forth

LEMMA WholeClaim == ASSUME WholeInv, Manager!Claim PROVE WholeInv'
<1> DEFINE s == Head(todo).slot
<1>1. /\ todo # <<>> /\ Head(todo).do = "claim"
      /\ todo' = Tail(todo) /\ mode' = IF Len(todo) = 1 THEN "idle" ELSE mode
      /\ UNCHANGED <<kind, spoiled, edited, edits, journal, half, public, prepared>>
      /\ claim' = IF Had(s) THEN claim \cup {s} ELSE claim
    <2>1. Manager!Run({"claim"}) /\ Manager!TakeClaim(Manager!At)
        BY DEF Manager!Claim
    <2>2. claim' = (IF Had(s) THEN claim \cup {s} ELSE claim) /\ UNCHANGED <<public, prepared>>
        BY <2>1, PlansAre DEF Manager!TakeClaim, Manager!At
    <2>3. /\ todo # <<>> /\ Head(todo).do \in {"claim"}
          /\ todo' = Tail(todo) /\ mode' = IF Len(todo) = 1 THEN "idle" ELSE mode
          /\ UNCHANGED <<kind, spoiled, edited, edits, journal, half>>
        BY <2>1, RunDoes
    <2> QED
        BY <2>2, <2>3
<1>2. Head(todo).do \notin Tidying \cup Undoing /\ Head(todo).do # "erase" /\ Head(todo).do \notin Manager!Journaled
    BY <1>1 DEF Tidying, Undoing, Manager!Journaled, Manager!Phase
<1>3. /\ Line(todo) /\ Line(Tail(todo)) /\ s \in Slot /\ Changed(s)
      /\ Claimed(todo) /\ Forth(todo) /\ Reach /\ (edits = 0 => \A t \in Slot : Sound(t))
      /\ ~half /\ journal # <<>> /\ Confirmed = Manager!Recorded
    BY <1>1, <1>2, InCommit, Onward DEF WholeInv, Shape, Suits
<1>4. mode' = mode /\ Doing'
    BY <1>1, <1>2, Goes DEF WholeInv
<1>5. Shape'
    <2>1. Ledger'
        BY <1>1, LedgerStays DEF WholeInv, Shape
    <2> QED
        BY <1>1, <1>3, <1>4, <2>1, ShapeOn DEF WholeInv, Shape, Named
<1>6. \A name, t : Waits(todo, Op(name, t)) <=> (name = "claim" /\ t = s) \/ Waits(todo', Op(name, t))
    BY <1>1, <1>3, OnwardOps
<1>7. Confirmed' = Confirmed /\ Manager!Recorded' = Manager!Recorded
    BY <1>1 DEF Confirmed, Manager!Recorded
<1>8. Claimed(todo)'
    BY <1>1, <1>3, <1>6, <1>7, PlansStay DEF Claimed
<1>9. Forth(todo)'
    BY <1>1, <1>3, ForthOn
<1>10. Cover'
    <2>1. Reach'
        BY <1>1, <1>3, PlansStay DEF Reach
    <2>2. ASSUME edits = 0, NEW t \in Slot PROVE Sound(t)'
        <3>1. t = s /\ Had(s) => public[s] = "before"
            <4> SUFFICES ASSUME Had(s) PROVE public[s] = "before"
                OBVIOUS
            <4>1. Waits(todo, Op("unlink", s))
                BY <1>3, <1>6 DEF Claimed
            <4>2. edited = {}
                BY <2>2 DEF WholeInv, Shape
            <4> QED
                BY <1>3, <4>1, <4>2, PlanFacts DEF Forth
        <3>2. Sound(t)
            BY <1>3, <2>2
        <3> QED
            BY <1>1, <1>7, <3>1, <3>2 DEF Sound
    <2> QED
        BY <1>1, <2>1, <2>2 DEF Cover
<1> QED
    BY <1>1, <1>2, <1>3, <1>4, <1>5, <1>8, <1>9, <1>10, CommitOn

LEMMA WholeUnlink == ASSUME WholeInv, Manager!UnlinkPublic PROVE WholeInv'
<1> DEFINE s == Head(todo).slot
<1>1. /\ todo # <<>> /\ Head(todo).do = "unlink"
      /\ todo' = Tail(todo) /\ mode' = IF Len(todo) = 1 THEN "idle" ELSE mode
      /\ UNCHANGED <<kind, spoiled, edited, edits, journal, half, claim, prepared>>
      /\ public' = [public EXCEPT ![s] = "none"]
    <2>1. Manager!Run({"unlink"}) /\ Manager!Unlink(Manager!At)
        BY DEF Manager!UnlinkPublic
    <2>2. public' = [public EXCEPT ![s] = "none"] /\ UNCHANGED <<claim, prepared>>
        BY <2>1 DEF Manager!Unlink, Manager!At
    <2>3. /\ todo # <<>> /\ Head(todo).do \in {"unlink"}
          /\ todo' = Tail(todo) /\ mode' = IF Len(todo) = 1 THEN "idle" ELSE mode
          /\ UNCHANGED <<kind, spoiled, edited, edits, journal, half>>
        BY <2>1, RunDoes
    <2> QED
        BY <2>2, <2>3
<1>2. Head(todo).do \notin Tidying \cup Undoing /\ Head(todo).do # "erase" /\ Head(todo).do \notin Manager!Journaled
    BY <1>1 DEF Tidying, Undoing, Manager!Journaled, Manager!Phase
<1>3. /\ Line(todo) /\ Line(Tail(todo)) /\ s \in Slot /\ Changed(s) /\ Had(s)
      /\ Claimed(todo) /\ Forth(todo) /\ Reach /\ (edits = 0 => \A t \in Slot : Sound(t))
      /\ ~half /\ journal # <<>> /\ Confirmed = Manager!Recorded
    BY <1>1, <1>2, InCommit, Onward DEF WholeInv, Shape, Suits
<1>4. mode' = mode /\ Doing'
    BY <1>1, <1>2, Goes DEF WholeInv
<1>5. /\ public' \in [Slot -> Inodes] /\ public'[s] = "none"
      /\ \A t \in Slot : t # s => public'[t] = public[t]
    BY <1>1, <1>3 DEF WholeInv, Shape, Named, Inodes
<1>6. Shape'
    <2>1. Ledger'
        BY <1>1, LedgerStays DEF WholeInv, Shape
    <2>2. \A t \in Slot : public'[t] = "before" => Had(t)
        BY <1>5 DEF WholeInv, Shape
    <2>3. \A t \in Slot : public'[t] = public[t] \/ Changed(t)
        BY <1>3, <1>5
    <2> QED
        BY <1>1, <1>3, <1>4, <1>5, <2>1, <2>2, <2>3, ShapeOn DEF WholeInv, Shape
<1>7. /\ \A name, t : Waits(todo, Op(name, t)) <=> (name = "unlink" /\ t = s) \/ Waits(todo', Op(name, t))
      /\ \A name \in {"claim", "record", "unlink"} : ~Waits(todo', Op(name, s))
    BY <1>1, <1>3, OnwardOps, SpentIs
<1>8. Confirmed' = Confirmed /\ Manager!Recorded' = Manager!Recorded
    BY <1>1 DEF Confirmed, Manager!Recorded
<1>9. Claimed(todo)'
    BY <1>1, <1>3, <1>7, <1>8, PlansStay DEF Claimed
<1>10. s \in claim /\ s \in Manager!Recorded
    <2>1. ~Waits(todo, Op("claim", s)) /\ ~Waits(todo, Op("record", s))
        BY <1>7
    <2> QED
        BY <1>3, <2>1 DEF Claimed
<1>11. Forth(todo)'
    <2>1. ASSUME NEW t \in Slot \ edited
          PROVE  public'[t] = IF Waits(todo', Op("unlink", t)) THEN Before(t)
                              ELSE IF Waits(todo', Op("publish", t)) THEN "none" ELSE After(t)
        <3>1. CASE t = s
            <4>1. ~Waits(todo', Op("unlink", s))
                BY <1>7
            <4>2. CASE Gets(s)
                BY <1>3, <1>5, <1>7, <3>1, <4>1, <4>2 DEF Forth
            <4>3. CASE ~Gets(s)
                BY <1>3, <1>5, <3>1, <4>1, <4>3, PlanFacts
            <4> QED
                BY <4>2, <4>3
        <3>2. CASE t # s
            BY <1>3, <1>5, <1>7, <3>2 DEF Forth
        <3> QED
            BY <3>1, <3>2
    <2>2. \A t \in Slot : Waits(todo', Op("unlink", t)) /\ Gets(t) => Waits(todo', Op("publish", t))
        BY <1>3, <1>7 DEF Forth
    <2> QED
        BY <1>1, <2>1, <2>2, PlansStay DEF Forth
<1>12. Cover'
    <2>1. Reach'
        BY <1>1, <1>3, <1>5, <1>10, PlansStay DEF Reach
    <2>2. ASSUME edits = 0, NEW t \in Slot PROVE Sound(t)'
        BY <1>1, <1>3, <1>5, <1>8, <1>10, <2>2 DEF Sound
    <2> QED
        BY <1>1, <2>1, <2>2 DEF Cover
<1> QED
    BY <1>1, <1>2, <1>3, <1>4, <1>6, <1>9, <1>11, <1>12, CommitOn

LEMMA WholePublish == ASSUME WholeInv, Manager!PublishPrepared PROVE WholeInv'
<1> DEFINE s == Head(todo).slot
<1>1. /\ todo # <<>> /\ Head(todo).do = "publish"
      /\ todo' = Tail(todo) /\ mode' = IF Len(todo) = 1 THEN "idle" ELSE mode
      /\ UNCHANGED <<kind, spoiled, edited, edits, journal, half, claim, prepared>>
      /\ public' = [public EXCEPT ![s] = "after"]
    <2>1. Manager!Run({"publish"}) /\ Manager!Link(Manager!At, "after")
        BY DEF Manager!PublishPrepared
    <2>2. public' = [public EXCEPT ![s] = "after"] /\ UNCHANGED <<claim, prepared>>
        BY <2>1 DEF Manager!Link, Manager!At
    <2>3. /\ todo # <<>> /\ Head(todo).do \in {"publish"}
          /\ todo' = Tail(todo) /\ mode' = IF Len(todo) = 1 THEN "idle" ELSE mode
          /\ UNCHANGED <<kind, spoiled, edited, edits, journal, half>>
        BY <2>1, RunDoes
    <2> QED
        BY <2>2, <2>3
<1>2. Head(todo).do \notin Tidying \cup Undoing /\ Head(todo).do # "erase" /\ Head(todo).do \notin Manager!Journaled
    BY <1>1 DEF Tidying, Undoing, Manager!Journaled, Manager!Phase
<1>3. /\ Line(todo) /\ Line(Tail(todo)) /\ s \in Slot /\ Changed(s) /\ Gets(s) /\ After(s) = "after"
      /\ Claimed(todo) /\ Forth(todo) /\ Reach /\ (edits = 0 => \A t \in Slot : Sound(t))
      /\ ~half /\ journal # <<>> /\ Confirmed = Manager!Recorded /\ s \in prepared
    BY <1>1, <1>2, InCommit, Onward, PlanFacts DEF WholeInv, Shape, Suits
<1>4. mode' = mode /\ Doing'
    BY <1>1, <1>2, Goes DEF WholeInv
<1>5. /\ public' \in [Slot -> Inodes] /\ public'[s] = "after"
      /\ \A t \in Slot : t # s => public'[t] = public[t]
    BY <1>1, <1>3 DEF WholeInv, Shape, Named, Inodes
<1>6. Shape'
    <2>1. Ledger'
        BY <1>1, LedgerStays DEF WholeInv, Shape
    <2>2. \A t \in Slot : public'[t] = "before" => Had(t)
        BY <1>5 DEF WholeInv, Shape
    <2>3. \A t \in Slot : public'[t] = public[t] \/ Changed(t)
        BY <1>3, <1>5
    <2> QED
        BY <1>1, <1>3, <1>4, <1>5, <2>1, <2>2, <2>3, ShapeOn DEF WholeInv, Shape
<1>7. /\ \A name, t : Waits(todo, Op(name, t)) <=> (name = "publish" /\ t = s) \/ Waits(todo', Op(name, t))
      /\ \A name \in {"claim", "record", "unlink", "publish"} : ~Waits(todo', Op(name, s))
    BY <1>1, <1>3, OnwardOps, SpentIs
<1>8. Confirmed' = Confirmed /\ Manager!Recorded' = Manager!Recorded
    BY <1>1 DEF Confirmed, Manager!Recorded
<1>9. Claimed(todo)'
    BY <1>1, <1>3, <1>7, <1>8, PlansStay DEF Claimed
<1>10. Had(s) => s \in claim /\ s \in Manager!Recorded
    <2>1. ~Waits(todo, Op("claim", s)) /\ ~Waits(todo, Op("record", s))
        BY <1>7
    <2> QED
        BY <1>3, <2>1 DEF Claimed
<1>11. Forth(todo)'
    <2>1. ASSUME NEW t \in Slot \ edited
          PROVE  public'[t] = IF Waits(todo', Op("unlink", t)) THEN Before(t)
                              ELSE IF Waits(todo', Op("publish", t)) THEN "none" ELSE After(t)
        <3>1. CASE t = s
            BY <1>3, <1>5, <1>7, <3>1
        <3>2. CASE t # s
            BY <1>3, <1>5, <1>7, <3>2 DEF Forth
        <3> QED
            BY <3>1, <3>2
    <2>2. \A t \in Slot : Waits(todo', Op("unlink", t)) /\ Gets(t) => Waits(todo', Op("publish", t))
        BY <1>3, <1>7 DEF Forth
    <2> QED
        BY <1>1, <2>1, <2>2, PlansStay DEF Forth
<1>12. Cover'
    <2>1. Reach'
        BY <1>1, <1>3, <1>5, <1>10, PlansStay DEF Reach
    <2>2. ASSUME edits = 0, NEW t \in Slot PROVE Sound(t)'
        <3>1. s \in claim => Had(s)
            BY <1>3 DEF WholeInv, Shape
        <3> QED
            BY <1>1, <1>3, <1>5, <1>8, <1>10, <2>2, <3>1 DEF Sound
    <2> QED
        BY <1>1, <2>1, <2>2 DEF Cover
<1> QED
    BY <1>1, <1>2, <1>3, <1>4, <1>6, <1>9, <1>11, <1>12, CommitOn

LEMMA AppendIs ==
    ASSUME Ledger, NEW claims \in SUBSET Slot, NEW j, j = Append(journal, claims)
    PROVE  /\ j \in Seq(SUBSET Slot) /\ j # <<>> /\ Manager!Last(j) = claims
           /\ (Len(j) = 1 <=> journal = <<>>)
           /\ journal # <<>> => Len(j) # 1 /\ j[Len(j) - 1] = Manager!Last(journal)
<1>1. journal \in Seq(SUBSET Slot) /\ Len(journal) \in Nat
    BY LenProperties DEF Ledger
<1>2. /\ j \in Seq(SUBSET Slot) /\ Len(j) = Len(journal) + 1
      /\ \A i \in 1 .. Len(journal) : j[i] = journal[i]
      /\ j[Len(journal) + 1] = claims
    BY <1>1, AppendProperties
<1>3. journal = <<>> <=> Len(journal) = 0
    BY <1>1, EmptySeq
<1>4. j # <<>>
    <2>1. j = <<>> <=> Len(j) = 0
        BY <1>2, EmptySeq
    <2> QED
        BY <1>1, <1>2, <2>1
<1>5. Manager!Last(j) = j[Len(j)] /\ Manager!Last(journal) = journal[Len(journal)]
    BY DEF Manager!Last
<1>6. journal # <<>> => Len(journal) \in 1 .. Len(journal) /\ Len(j) # 1 /\ Len(j) - 1 = Len(journal)
    BY <1>1, <1>2, <1>3
<1> QED
    BY <1>1, <1>2, <1>3, <1>4, <1>5, <1>6

LEMMA RecordedIs == ASSUME Ledger PROVE Manager!Recorded \subseteq Slot /\ Confirmed \subseteq Slot
<1>1. ASSUME journal # <<>> PROVE Manager!Last(journal) \in SUBSET Slot
    <2>1. journal \in Seq(SUBSET Slot) /\ Len(journal) \in Nat \ {0}
        BY <1>1, LenProperties, EmptySeq DEF Ledger
    <2>2. Len(journal) \in 1 .. Len(journal)
        BY <2>1
    <2>3. journal[Len(journal)] \in SUBSET Slot
        BY <2>1, <2>2, ElementOfSeq
    <2> QED
        BY <2>3 DEF Manager!Last
<1>2. Manager!Recorded \subseteq Slot
    BY <1>1 DEF Manager!Recorded
<1>3. ASSUME half, Len(journal) # 1 PROVE journal[Len(journal) - 1] \subseteq Slot
    <2>1. journal \in Seq(SUBSET Slot) /\ Len(journal) \in Nat \ {0}
        BY <1>3, LenProperties, EmptySeq DEF Ledger
    <2>2. Len(journal) # 1
        BY <1>3
    <2>3. Len(journal) - 1 \in 1 .. Len(journal)
        <3>1. \A n \in Nat \ {0} : n # 1 => n - 1 \in 1 .. n
            OBVIOUS
        <3> QED
            BY <2>1, <2>2, <3>1
    <2> QED
        BY <2>1, <2>3, ElementOfSeq
<1> QED
    BY <1>2, <1>3 DEF Confirmed

LEMMA WholeData == ASSUME WholeInv, Manager!PublishData PROVE WholeInv'
<1> DEFINE s == Head(todo).slot
           new == Manager!Recorded \cup (IF Head(todo).do = "record" THEN {s} ELSE {})
<1>1. /\ todo # <<>> /\ Head(todo).do \in Manager!Journaled /\ ~half /\ half' = TRUE
      /\ journal' = Append(journal, new)
      /\ UNCHANGED <<todo, mode, kind, spoiled, edited, edits, public, claim, prepared>>
    BY DEF Manager!PublishData, Manager!Due, Manager!At, Manager!links, Manager!users, Manager!command
<1>2. Head(todo).do \notin Tidying \cup Undoing
    BY <1>1 DEF Tidying, Undoing, Manager!Journaled, Manager!Phase
<1>3. /\ mode = "commit" /\ Committing /\ Forth(todo) /\ Writing /\ Claimed(todo) /\ s \in Slot
      /\ Reach /\ (edits = 0 => \A t \in Slot : Sound(t)) /\ prepared = {t \in Slot : Gets(t)}
    BY <1>1, <1>2, InCommit, Onward DEF WholeInv, Shape
<1>4. Ledger /\ new \in SUBSET Slot
    BY <1>3, RecordedIs DEF WholeInv, Shape
<1> HIDE DEF new
<1>5. /\ journal' \in Seq(SUBSET Slot) /\ journal' # <<>> /\ Manager!Last(journal') = new
      /\ (Len(journal') = 1 <=> journal = <<>>)
      /\ journal # <<>> => Len(journal') # 1 /\ journal'[Len(journal') - 1] = Manager!Last(journal)
    BY <1>1, <1>4, AppendIs
<1>6. Confirmed = Manager!Recorded /\ Manager!Recorded' = new /\ Confirmed' = Manager!Recorded
    BY <1>1, <1>5 DEF Confirmed, Manager!Recorded
<1>7. Shape'
    <2>1. Ledger'
        BY <1>1, <1>5 DEF Ledger
    <2>2. Doing' /\ Line(todo')
        BY <1>1 DEF WholeInv, Shape, Doing
    <2> QED
        BY <1>1, <2>1, <2>2, ShapeOn DEF WholeInv, Shape, Named
<1>8. Claimed(todo)'
    BY <1>1, <1>3, <1>6, PlansStay DEF Claimed
<1>9. Writing'
    <2>1. prepared' = {t \in Slot : Gets(t)'}
        BY <1>1, <1>3, PlansStay
    <2>2. Manager!Recorded' = Confirmed' \cup (IF Head(todo').do = "record" THEN {Head(todo').slot} ELSE {})
        BY <1>1, <1>6 DEF new
    <2>3. Len(journal') = 1 => Head(todo').do = "base"
        BY <1>1, <1>3, <1>5 DEF Committing
    <2> QED
        BY <1>1, <1>8, <2>1, <2>2, <2>3 DEF Writing, Manager!Journaled, Manager!Phase
<1>10. Committing'
    BY <1>1, <1>3, <1>5, <1>9, FilesStay DEF Committing
<1>11. Cover'
    <2>1. Reach'
        BY <1>1, <1>3, PlansStay DEF Reach
    <2>2. ASSUME edits = 0, NEW t \in Slot PROVE Sound(t)'
        BY <1>1, <1>3, <1>6, <2>2 DEF Sound, new
    <2> QED
        BY <1>1, <2>1, <2>2 DEF Cover
<1> QED
    BY <1>1, <1>3, <1>7, <1>10, <1>11 DEF WholeInv, Stage

LEMMA WholeAnchor == ASSUME WholeInv, Manager!PublishAnchor PROVE WholeInv'
<1> DEFINE s == Head(todo).slot
<1>1. /\ todo # <<>> /\ Head(todo).do \in Manager!Journaled /\ half /\ half' = FALSE
      /\ todo' = Tail(todo) /\ mode' = IF Len(todo) = 1 THEN "idle" ELSE mode
      /\ UNCHANGED <<kind, spoiled, edited, edits, public, claim, prepared, journal>>
    BY DEF Manager!PublishAnchor, Manager!Due, Manager!Proceed, Manager!links, Manager!users
<1>2. Head(todo).do \notin Tidying \cup Undoing /\ Head(todo).do # "erase" /\ Head(todo).do \notin {"unlink", "publish"}
      /\ Head(todo).do # "claim"
    BY <1>1 DEF Tidying, Undoing, Manager!Journaled, Manager!Phase
<1>3. /\ Line(todo) /\ Line(Tail(todo)) /\ s \in Slot /\ Writing
      /\ Claimed(todo) /\ Forth(todo) /\ Reach /\ (edits = 0 => \A t \in Slot : Sound(t))
      /\ journal # <<>>
    BY <1>1, <1>2, InCommit, Onward DEF WholeInv, Shape, Ledger
<1>4. mode' = mode /\ Doing'
    BY <1>1, <1>2, Goes DEF WholeInv
<1>5. Shape'
    <2>1. Ledger'
        BY <1>1 DEF WholeInv, Shape, Ledger
    <2> QED
        BY <1>1, <1>3, <1>4, <2>1, ShapeOn DEF WholeInv, Shape, Named
<1>6. \A name, t : Waits(todo, Op(name, t)) <=> (name = Head(todo).do /\ t = s) \/ Waits(todo', Op(name, t))
    BY <1>1, <1>3, OnwardOps
<1>7. /\ Confirmed' = Manager!Recorded /\ Manager!Recorded' = Manager!Recorded
      /\ Manager!Recorded = Confirmed \cup (IF Head(todo).do = "record" THEN {s} ELSE {})
    BY <1>1, <1>3 DEF Confirmed, Manager!Recorded, Writing
<1>8. Claimed(todo)'
    <2> SUFFICES ASSUME NEW t \in Slot, Changed(t), Had(t)
                 PROVE  /\ Waits(todo', Op("claim", t)) \/ t \in claim
                        /\ Waits(todo', Op("record", t)) \/ t \in Manager!Recorded
                        /\ Waits(todo', Op("claim", t)) \/ Waits(todo', Op("record", t))
                           => Waits(todo', Op("unlink", t))
        BY <1>1, <1>7, PlansStay DEF Claimed
    <2> QED
        BY <1>2, <1>3, <1>6, <1>7 DEF Claimed
<1>9. Forth(todo)'
    BY <1>1, <1>2, <1>3, ForthOn
<1>10. Cover'
    <2>1. Reach'
        BY <1>1, <1>3, PlansStay DEF Reach
    <2>2. ASSUME edits = 0, NEW t \in Slot PROVE Sound(t)'
        BY <1>1, <1>3, <1>7, <2>2 DEF Sound
    <2> QED
        BY <1>1, <2>1, <2>2 DEF Cover
<1> QED
    BY <1>1, <1>2, <1>3, <1>4, <1>5, <1>8, <1>9, <1>10, CommitOn

LEMMA WholeJournalFault == ASSUME WholeInv, Manager!JournalFault PROVE WholeInv'
<1>1. /\ todo # <<>> /\ Head(todo).do \in Manager!Journaled
      /\ journal' = (IF half THEN Manager!Front(journal) ELSE journal) /\ half' = FALSE
      /\ prepared' = (IF Head(todo).do = "base" THEN {} ELSE prepared)
      /\ todo' = <<>> /\ mode' = "idle"
      /\ UNCHANGED <<public, claim, kind, spoiled, edited, edits>>
    BY DEF Manager!JournalFault, Manager!Due, Manager!Stop, Manager!users
<1>2. Head(todo).do \notin Tidying \cup Undoing
    BY <1>1 DEF Tidying, Undoing, Manager!Journaled, Manager!Phase
<1>3. /\ Committing /\ Forth(todo) /\ Writing /\ Claimed(todo)
      /\ Reach /\ (edits = 0 => \A t \in Slot : Sound(t)) /\ Ledger
    BY <1>1, <1>2, InCommit DEF WholeInv, Shape
<1>4. half => /\ journal # <<>> /\ Manager!Front(journal) \in Seq(SUBSET Slot)
              /\ (Manager!Front(journal) = <<>> <=> Len(journal) = 1)
              /\ Len(journal) # 1 => Manager!Last(Manager!Front(journal)) = journal[Len(journal) - 1]
    BY <1>3, FrontIs DEF Ledger
<1>5. Ledger' /\ Manager!Recorded' = Confirmed
    BY <1>1, <1>3, <1>4 DEF Ledger, Manager!Recorded, Confirmed
<1>6. journal' = <<>> => AllBefore
    BY <1>1, <1>3, <1>4 DEF Committing, Writing
<1>7. Reach'
    BY <1>1, <1>3, PlansStay DEF Reach
<1>8. ASSUME edits = 0, NEW t \in Slot PROVE Sound(t)'
    <2>1. edited = {}
        BY <1>8 DEF WholeInv, Shape
    <2>2. Sound(t)
        BY <1>3, <1>8
    <2>3. ASSUME t \in claim, t \notin Confirmed PROVE public[t] = "before"
        <3>1. Had(t)
            BY <2>3 DEF WholeInv, Shape
        <3>2. CASE Changed(t)
            <4>1. Waits(todo, Op("unlink", t))
                BY <1>3, <2>3, <3>1, <3>2 DEF Claimed
            <4> QED
                BY <1>3, <2>1, <3>1, <4>1, PlanFacts DEF Forth
        <3>3. CASE ~Changed(t)
            BY <2>1, <3>1, <3>3, PlanFacts DEF WholeInv, Shape
        <3> QED
            BY <3>2, <3>3
    <2>4. public[t] = "after" => t \in prepared'
        <3>1. CASE Head(todo).do = "base"
            BY <1>3, <2>1, <3>1, PlanFacts DEF Committing, AllBefore
        <3>2. CASE Head(todo).do # "base"
            BY <1>1, <2>2, <3>2 DEF Sound
        <3> QED
            BY <3>1, <3>2
    <2> QED
        BY <1>1, <1>5, <2>2, <2>3, <2>4 DEF Sound
<1>9. Cover'
    BY <1>1, <1>7, <1>8 DEF Cover
<1> QED
    BY <1>1, <1>5, <1>6, <1>9, Halts

-----------------------------------------------------------------------------
(* An undo or a repair.                                                    *)

LEMMA ClassIs ==
    ASSUME NEW s
    PROVE  /\ Manager!Class(s) \in {"none", "before", "after", "third"}
           /\ Manager!Class(s) = "none" <=> public[s] = "none"
           /\ Manager!Class(s) = "before" <=> Holds(s, "before")
           /\ Manager!Class(s) = "after" <=> Holds(s, "after") /\ s \in prepared
<1>1. ~(public[s] = "none" /\ Holds(s, "before")) /\ ~(public[s] = "none" /\ Holds(s, "after"))
      /\ ~(Holds(s, "before") /\ Holds(s, "after"))
    BY DEF Holds
<1> QED
    BY <1>1, ManagerIs DEF Manager!Class

LEMMA InUndo ==
    ASSUME WholeInv, todo # <<>>, Head(todo).do \in Undoing
    PROVE  /\ mode \in {"undo", "recover"} /\ journal # <<>> /\ Back(todo)
           /\ Reach /\ (edits = 0 => \A s \in Slot : Sound(s))
<1>1. Waits(todo, Head(todo))
    BY Onward DEF WholeInv, Shape
<1>2. mode \in {"undo", "recover"}
    BY <1>1 DEF WholeInv, Shape, Doing
<1>3. ~Over
    BY <1>1 DEF Over, Tidy, Undoing, Tidying
<1> QED
    BY <1>2, <1>3 DEF WholeInv, Stage, Cover

LEMMA UndoOn ==
    ASSUME WholeInv, todo # <<>>, Head(todo).do \in Undoing, mode' = mode,
           Shape', journal' = journal, Back(todo)', Cover'
    PROVE  WholeInv'
BY InUndo DEF WholeInv, Stage

LEMMA WholePreflight == ASSUME WholeInv, Manager!Preflight PROVE WholeInv'
<1>1. /\ todo # <<>> /\ Head(todo).do = "preflight"
      /\ todo' = Tail(todo) /\ mode' = IF Len(todo) = 1 THEN "idle" ELSE mode
      /\ UNCHANGED <<kind, spoiled, edited, edits, journal, half, public, claim, prepared>>
    <2>1. Manager!Run({"preflight"}) /\ UNCHANGED Manager!links
        BY DEF Manager!Preflight
    <2>2. /\ todo # <<>> /\ Head(todo).do \in {"preflight"}
          /\ todo' = Tail(todo) /\ mode' = IF Len(todo) = 1 THEN "idle" ELSE mode
          /\ UNCHANGED <<kind, spoiled, edited, edits, journal, half>>
        BY <2>1, RunDoes
    <2> QED
        BY <2>1, <2>2 DEF Manager!links
<1>2. Head(todo).do \in Undoing /\ Head(todo).do # "erase"
    BY <1>1 DEF Undoing
<1>3. /\ Line(todo) /\ Line(Tail(todo)) /\ Back(todo) /\ Reach /\ (edits = 0 => \A t \in Slot : Sound(t))
    BY <1>1, <1>2, InUndo, Onward DEF WholeInv, Shape
<1>4. mode' = mode /\ Doing'
    BY <1>1, <1>2, Goes DEF WholeInv
<1>5. Shape'
    <2>1. Ledger'
        BY <1>1, LedgerStays DEF WholeInv, Shape
    <2> QED
        BY <1>1, <1>3, <1>4, <2>1, ShapeOn DEF WholeInv, Shape, Named
<1>6. \A name \in {"withdraw", "return"} : \A t : Waits(todo, Op(name, t)) <=> Waits(todo', Op(name, t))
    BY <1>1, <1>3, OnwardOps
<1>7. Back(todo)'
    BY <1>1, <1>3, <1>6, PlansStay DEF Back
<1>8. Cover'
    BY <1>1, <1>3, PlansStay DEF Cover, Reach, Sound, Manager!Recorded
<1> QED
    BY <1>1, <1>2, <1>4, <1>5, <1>7, <1>8, UndoOn

LEMMA WholeWithdraw == ASSUME WholeInv, Manager!Withdraw PROVE WholeInv'
<1> DEFINE s == Head(todo).slot
<1>1. /\ todo # <<>> /\ Head(todo).do = "withdraw" /\ Manager!Checked(Head(todo))
      /\ todo' = Tail(todo) /\ mode' = IF Len(todo) = 1 THEN "idle" ELSE mode
      /\ UNCHANGED <<kind, spoiled, edited, edits, journal, half, claim, prepared>>
      /\ IF Manager!Class(s) = "after" THEN public' = [public EXCEPT ![s] = "none"] ELSE UNCHANGED public
    <2>1. /\ Manager!Run({"withdraw"})
          /\ IF Manager!Class(Manager!At) = "after" THEN Manager!Unlink(Manager!At) ELSE UNCHANGED Manager!links
        BY DEF Manager!Withdraw
    <2>2. /\ IF Manager!Class(s) = "after" THEN public' = [public EXCEPT ![s] = "none"] ELSE UNCHANGED public
          /\ UNCHANGED <<claim, prepared>>
        BY <2>1 DEF Manager!Unlink, Manager!At, Manager!links
    <2>3. /\ todo # <<>> /\ Head(todo).do \in {"withdraw"} /\ Manager!Checked(Head(todo))
          /\ todo' = Tail(todo) /\ mode' = IF Len(todo) = 1 THEN "idle" ELSE mode
          /\ UNCHANGED <<kind, spoiled, edited, edits, journal, half>>
        BY <2>1, RunDoes
    <2> QED
        BY <2>2, <2>3
<1>2. Head(todo).do \in Undoing /\ Head(todo).do # "erase"
    BY <1>1 DEF Undoing
<1>3. /\ Line(todo) /\ Line(Tail(todo)) /\ s \in Slot /\ Changed(s) /\ Back(todo)
      /\ Reach /\ (edits = 0 => \A t \in Slot : Sound(t)) /\ public \in [Slot -> Inodes]
    BY <1>1, <1>2, InUndo, Onward DEF WholeInv, Shape, Suits, Named
<1>4. mode' = mode /\ Doing'
    BY <1>1, <1>2, Goes DEF WholeInv
<1>5. Manager!Class(s) \in {"none", "before", "after"}
    BY <1>1 DEF Manager!Checked
<1>6. /\ public' \in [Slot -> Inodes] /\ \A t \in Slot : t # s => public'[t] = public[t]
      /\ public'[s] = IF public[s] = "after" THEN "none" ELSE public[s]
      /\ public[s] \in {"none", "before", "after"}
    BY <1>1, <1>3, <1>5, ClassIs DEF Inodes, Holds
<1>7. Shape'
    <2>1. Ledger'
        BY <1>1, LedgerStays DEF WholeInv, Shape
    <2>2. \A t \in Slot : public'[t] = "before" => Had(t)
        BY <1>6 DEF WholeInv, Shape
    <2>3. \A t \in Slot : public'[t] = public[t] \/ Changed(t)
        BY <1>3, <1>6
    <2> QED
        BY <1>1, <1>3, <1>4, <1>6, <2>1, <2>2, <2>3, ShapeOn DEF WholeInv, Shape
<1>8. \A name, t : Waits(todo, Op(name, t)) <=> (name = "withdraw" /\ t = s) \/ Waits(todo', Op(name, t))
    BY <1>1, <1>3, OnwardOps
<1>9. Back(todo)'
    <2>1. ASSUME NEW t \in Slot \ edited
          PROVE  Waits(todo', Op("withdraw", t)) \/ Waits(todo', Op("return", t)) \/ public'[t] = Before(t)
        <3>1. CASE t # s
            BY <1>3, <1>6, <1>8, <3>1 DEF Back
        <3>2. CASE t = s /\ Had(s)
            BY <1>3, <1>8, <3>2 DEF Back
        <3>3. CASE t = s /\ ~Had(s)
            <4>1. Before(s) = "none" /\ public[s] # "before"
                BY <1>3, <3>3, PlanFacts DEF WholeInv, Shape
            <4> QED
                BY <1>6, <3>3, <4>1
        <3> QED
            BY <3>1, <3>2, <3>3
    <2>2. \A t \in Slot : Waits(todo', Op("withdraw", t)) /\ Had(t) => Waits(todo', Op("return", t))
        BY <1>3, <1>8 DEF Back
    <2> QED
        BY <1>1, <2>1, <2>2, PlansStay DEF Back
<1>10. Cover'
    <2>1. Reach'
        BY <1>1, <1>3, <1>6, PlansStay DEF Reach
    <2>2. ASSUME edits = 0, NEW t \in Slot PROVE Sound(t)'
        BY <1>1, <1>3, <1>6, <2>2 DEF Sound, Manager!Recorded
    <2> QED
        BY <1>1, <2>1, <2>2 DEF Cover
<1> QED
    BY <1>1, <1>2, <1>4, <1>7, <1>9, <1>10, UndoOn

LEMMA WholeReturn == ASSUME WholeInv, Manager!Return PROVE WholeInv'
<1> DEFINE s == Head(todo).slot
<1>1. /\ todo # <<>> /\ Head(todo).do = "return" /\ Manager!Checked(Head(todo))
      /\ todo' = Tail(todo) /\ mode' = IF Len(todo) = 1 THEN "idle" ELSE mode
      /\ UNCHANGED <<kind, spoiled, edited, edits, journal, half, claim, prepared>>
      /\ IF public[s] = "none" THEN public' = [public EXCEPT ![s] = "before"] ELSE UNCHANGED public
    <2>1. /\ Manager!Run({"return"})
          /\ IF public[Manager!At] = "none" THEN Manager!Link(Manager!At, "before") ELSE UNCHANGED Manager!links
        BY DEF Manager!Return
    <2>2. /\ IF public[s] = "none" THEN public' = [public EXCEPT ![s] = "before"] ELSE UNCHANGED public
          /\ UNCHANGED <<claim, prepared>>
        BY <2>1 DEF Manager!Link, Manager!At, Manager!links
    <2>3. /\ todo # <<>> /\ Head(todo).do \in {"return"} /\ Manager!Checked(Head(todo))
          /\ todo' = Tail(todo) /\ mode' = IF Len(todo) = 1 THEN "idle" ELSE mode
          /\ UNCHANGED <<kind, spoiled, edited, edits, journal, half>>
        BY <2>1, RunDoes
    <2> QED
        BY <2>2, <2>3
<1>2. Head(todo).do \in Undoing /\ Head(todo).do # "erase"
    BY <1>1 DEF Undoing
<1>3. /\ Line(todo) /\ Line(Tail(todo)) /\ s \in Slot /\ Changed(s) /\ Had(s) /\ Back(todo)
      /\ Reach /\ (edits = 0 => \A t \in Slot : Sound(t)) /\ public \in [Slot -> Inodes]
    BY <1>1, <1>2, InUndo, Onward DEF WholeInv, Shape, Suits, Named
<1>4. mode' = mode /\ Doing'
    BY <1>1, <1>2, Goes DEF WholeInv
<1>5. Manager!Class(s) = "before" \/ public[s] = "none"
    BY <1>1 DEF Manager!Checked
<1>6. /\ public' \in [Slot -> Inodes] /\ \A t \in Slot : t # s => public'[t] = public[t]
      /\ public'[s] = "before"
    BY <1>1, <1>3, <1>5, ClassIs DEF Inodes, Holds
<1>7. Shape'
    <2>1. Ledger'
        BY <1>1, LedgerStays DEF WholeInv, Shape
    <2>2. \A t \in Slot : public'[t] = "before" => Had(t)
        BY <1>3, <1>6 DEF WholeInv, Shape
    <2>3. \A t \in Slot : public'[t] = public[t] \/ Changed(t)
        BY <1>3, <1>6
    <2> QED
        BY <1>1, <1>3, <1>4, <1>6, <2>1, <2>2, <2>3, ShapeOn DEF WholeInv, Shape
<1>8. /\ \A name, t : Waits(todo, Op(name, t)) <=> (name = "return" /\ t = s) \/ Waits(todo', Op(name, t))
      /\ ~Waits(todo', Op("withdraw", s))
    BY <1>1, <1>3, OnwardOps, SpentIs
<1>9. Back(todo)'
    <2>1. ASSUME NEW t \in Slot \ edited
          PROVE  Waits(todo', Op("withdraw", t)) \/ Waits(todo', Op("return", t)) \/ public'[t] = Before(t)
        <3>1. CASE t # s
            BY <1>3, <1>6, <1>8, <3>1 DEF Back
        <3>2. CASE t = s
            BY <1>3, <1>6, <3>2, PlanFacts
        <3> QED
            BY <3>1, <3>2
    <2>2. \A t \in Slot : Waits(todo', Op("withdraw", t)) /\ Had(t) => Waits(todo', Op("return", t))
        BY <1>3, <1>8 DEF Back
    <2> QED
        BY <1>1, <2>1, <2>2, PlansStay DEF Back
<1>10. Cover'
    <2>1. Reach'
        BY <1>1, <1>3, <1>6, PlansStay DEF Reach
    <2>2. ASSUME edits = 0, NEW t \in Slot PROVE Sound(t)'
        BY <1>1, <1>3, <1>6, <2>2 DEF Sound, Manager!Recorded
    <2> QED
        BY <1>1, <2>1, <2>2 DEF Cover
<1> QED
    BY <1>1, <1>2, <1>4, <1>7, <1>9, <1>10, UndoOn

-----------------------------------------------------------------------------
(* What the scripts begin with and what is in them.                        *)

LEMMA OfIs ==
    /\ \A name \in Names, s \in Slot : \A names, set : Op(name, s) \in Of(names, set) <=> name \in names /\ s \in set
    /\ \A set : \A x \in ClaimOps(set) : x.do \in {"claim", "record"}
    /\ \A set : \A x \in ReplaceOps(set) : x.do \in {"unlink", "publish"}
    /\ \A set : \A x \in RestoreOps(set) : x.do \in {"withdraw", "return"} /\ x.slot \in set
    /\ \A set : \A x \in ClaimOps(set) \cup ReplaceOps(set) \cup RestoreOps(set) : Suits(x)
<1>1. \A name \in Names, s \in Slot : \A names, set : Op(name, s) \in Of(names, set) <=> name \in names /\ s \in set
    BY OpsAre, OpFields DEF Of
<1>2. /\ \A set : \A x \in ClaimOps(set) : x.do \in {"claim", "record"} /\ Suits(x)
    BY DEF ClaimOps, Of, Suits
<1>3. /\ \A set : \A x \in ReplaceOps(set) : x.do \in {"unlink", "publish"} /\ Suits(x)
    BY PlanFacts DEF ReplaceOps, Of, Suits
<1>4. /\ \A set : \A x \in RestoreOps(set) : x.do \in {"withdraw", "return"} /\ x.slot \in set /\ Suits(x)
    BY DEF RestoreOps, Of, Suits
<1> QED
    BY <1>1, <1>2, <1>3, <1>4

LEMMA TidySuits == \A x : x.do \in Tidying \cup {"preflight"} => Suits(x) /\ x.do # "base"
BY DEF Tidying, Suits

\* A script that starts its journal first, and once.
Begins(ops) ==
    /\ ops \in Seq(Ops) /\ ops # <<>> /\ ops[1].do = "base"
    /\ \A i \in DOMAIN ops : ops[i].do = "base" => i = 1

LEMMA BeginsOn ==
    ASSUME NEW a, Begins(a), NEW b, NEW B, Block(b, B), \A x \in B : x.do # "base"
    PROVE  Begins(a \o b)
<1>1. a \in Seq(Ops) /\ b \in Seq(Ops) /\ a # <<>>
    BY DEF Begins, Block
<1>2. /\ a \o b \in Seq(Ops) /\ Len(a \o b) = Len(a) + Len(b)
      /\ \A i \in 1 .. Len(a) + Len(b) : (a \o b)[i] = IF i <= Len(a) THEN a[i] ELSE b[i - Len(a)]
    BY <1>1, ConcatProperties
<1>3. a \o b # <<>> /\ (a \o b)[1] = a[1]
    BY <1>1, ConcatHead
<1>4. /\ Len(a) \in Nat /\ Len(b) \in Nat /\ DOMAIN a = 1 .. Len(a) /\ DOMAIN b = 1 .. Len(b)
      /\ DOMAIN (a \o b) = 1 .. Len(a) + Len(b)
    BY <1>1, <1>2, LenProperties
<1>5. \A i \in 1 .. Len(b) : b[i].do # "base"
    BY <1>4 DEF Block, Waits
<1> DEFINE c == a \o b
<1> HIDE DEF c
<1>6. ASSUME NEW i \in 1 .. Len(a) + Len(b), c[i].do = "base" PROVE i = 1
    <2>1. CASE i <= Len(a)
        <3>1. c[i] = a[i] /\ i \in 1 .. Len(a)
            BY <1>2, <1>4, <2>1 DEF c
        <3> QED
            BY <1>4, <1>6, <3>1 DEF Begins
    <2>2. CASE ~(i <= Len(a))
        <3>1. c[i] = b[i - Len(a)] /\ i - Len(a) \in 1 .. Len(b)
            BY <1>2, <1>4, <2>2 DEF c
        <3> QED
            BY <1>5, <1>6, <3>1
    <2> QED
        BY <2>1, <2>2
<1> QED
    BY <1>1, <1>2, <1>3, <1>4, <1>6 DEF Begins, c

LEMMA ScriptBegins == Begins(Manager!Script)
<1> DEFINE P(name) == Op(name, Receipt)
<1>1. \A name \in Names : P(name) \in Ops /\ P(name).do = name
    BY OpsAre, OpFields, Slots
<1>2. /\ "base" \in Names /\ "writing" \in Names /\ "files-claimed" \in Names /\ "live-written" \in Names
      /\ "receipt-claimed" \in Names /\ "publish" \in Names /\ "receipt-published" \in Names
      /\ "receipt-committed" \in Names /\ "unlink" \in Names
    BY DEF Names
<1> HIDE DEF P
<1>3. ASSUME NEW name \in Names, name # "base"
      PROVE  Block(<<P(name)>>, {P(name)}) /\ \A x \in {P(name)} : x.do # "base"
    BY <1>1, <1>3, One
<1>4. \A set : \A x \in ClaimOps(set) \cup ReplaceOps(set) : x.do # "base"
    BY OfIs
<1>5. \A x \in CleanupOps : x.do # "base"
    BY CleanupBlock, TidySuits
<1> DEFINE a1 == <<P("base"), P("writing")>>
           a2 == a1 \o Manager!PerSlot(1, Manager!Claims)
           a3 == a2 \o <<P("files-claimed")>>
           a4 == a3 \o Manager!PerSlot(1, Manager!Replaces)
           a5 == a4 \o <<P("live-written")>>
           a6 == a5 \o Manager!Claims(Receipt)
           u == Manager!When(Had(Receipt), P("unlink"))
           a7 == a6 \o u
           a8 == a7 \o <<P("receipt-claimed")>>
           b == <<P("publish"), P("receipt-published")>>
           a9 == a8 \o b
           a10 == a9 \o <<P("receipt-committed")>>
           a11 == a10 \o Manager!Cleanup
<1>11. Begins(a1)
    <2>1. a1 \in Seq(Ops) /\ a1 # <<>> /\ a1[1] = P("base") /\ DOMAIN a1 = 1 .. 2 /\ a1[2] = P("writing")
        BY <1>1, <1>2
    <2>2. P("base").do = "base" /\ P("writing").do = "writing"
        BY <1>1, <1>2
    <2>3. \A i \in 1 .. 2 : i = 1 \/ i = 2
        OBVIOUS
    <2> HIDE DEF a1
    <2> QED
        BY <2>1, <2>2, <2>3 DEF Begins
<1> HIDE DEF a1
<1>12. Begins(a2)
    BY <1>4, <1>11, FileBlocks, BeginsOn
<1> HIDE DEF a2
<1>13. Begins(a3)
    <2> DEFINE o == <<P("files-claimed")>>
    <2>1. Block(o, {P("files-claimed")}) /\ \A x \in {P("files-claimed")} : x.do # "base"
        BY <1>2, <1>3
    <2> HIDE DEF o
    <2>2. Begins(a2 \o o)
        BY <1>12, <2>1, BeginsOn
    <2> QED
        BY <2>2 DEF o
<1> HIDE DEF a3
<1>14. Begins(a4)
    BY <1>4, <1>13, FileBlocks, BeginsOn
<1> HIDE DEF a4
<1>15. Begins(a5)
    <2> DEFINE o == <<P("live-written")>>
    <2>1. Block(o, {P("live-written")}) /\ \A x \in {P("live-written")} : x.do # "base"
        BY <1>2, <1>3
    <2> HIDE DEF o
    <2>2. Begins(a4 \o o)
        BY <1>14, <2>1, BeginsOn
    <2> QED
        BY <2>2 DEF o
<1> HIDE DEF a5
<1>16. Begins(a6)
    BY <1>4, <1>15, ClaimsBlock, Slots, BeginsOn
<1> HIDE DEF a6
<1>17. Begins(a7)
    <2>1. Block(u, Only(Had(Receipt), P("unlink")))
        BY <1>1, <1>2, OnlyBlock
    <2>2. \A x \in Only(Had(Receipt), P("unlink")) : x.do # "base"
        BY <1>1, <1>2 DEF Only
    <2> HIDE DEF u
    <2> QED
        BY <1>16, <2>1, <2>2, BeginsOn
<1> HIDE DEF a7
<1>18. Begins(a8)
    <2> DEFINE o == <<P("receipt-claimed")>>
    <2>1. Block(o, {P("receipt-claimed")}) /\ \A x \in {P("receipt-claimed")} : x.do # "base"
        BY <1>2, <1>3
    <2> HIDE DEF o
    <2>2. Begins(a7 \o o)
        BY <1>17, <2>1, BeginsOn
    <2> QED
        BY <2>2 DEF o
<1> HIDE DEF a8
<1>19. Begins(a9)
    <2>1. P("publish").do = "publish" /\ P("receipt-published").do = "receipt-published"
        BY <1>1, <1>2
    <2>2. Precedes(P("publish"), P("receipt-published"))
        BY <2>1, LaterFirst DEF Tidying
    <2>3. Block(b, {P("publish"), P("receipt-published")})
        BY <1>1, <1>2, <2>2, Two
    <2> HIDE DEF b
    <2> QED
        BY <1>18, <2>1, <2>3, BeginsOn
<1> HIDE DEF a9
<1>20. Begins(a10)
    <2> DEFINE o == <<P("receipt-committed")>>
    <2>1. Block(o, {P("receipt-committed")}) /\ \A x \in {P("receipt-committed")} : x.do # "base"
        BY <1>2, <1>3
    <2> HIDE DEF o
    <2>2. Begins(a9 \o o)
        BY <1>19, <2>1, BeginsOn
    <2> QED
        BY <2>2 DEF o
<1> HIDE DEF a10
<1>21. Begins(a11)
    BY <1>5, <1>20, CleanupBlock, BeginsOn
<1>22. a11 = Manager!Script
    BY OpIs, Slots, PlansAre
       DEF Manager!Script, Manager!When, P, a1, a2, a3, a4, a5, a6, a7, a8, a9, a10, b, Manager!Had, Manager!Before
<1> QED
    BY <1>21, <1>22

LEMMA ScriptHas ==
    ASSUME kind[Receipt] \in {"replace", "create"}
    PROVE  /\ Line(Manager!Script) /\ Manager!Script # <<>> /\ Head(Manager!Script).do = "base"
           /\ Waits(Manager!Script, Erase)
           /\ \A op : Waits(Manager!Script, op) => op.do \notin Undoing
           /\ \A s \in Slot : /\ Waits(Manager!Script, Op("unlink", s)) <=> Changed(s) /\ Had(s)
                              /\ Waits(Manager!Script, Op("publish", s)) <=> Gets(s)
                              /\ Waits(Manager!Script, Op("claim", s)) <=> Changed(s)
                              /\ Waits(Manager!Script, Op("record", s)) <=> Changed(s) /\ Had(s)
<1>1. Changed(Receipt) /\ Gets(Receipt) /\ Receipt \in Slot
    BY PlanFacts, Slots
<1>2. \A x \in CleanupOps : x.do \in Tidying
    BY CleanupBlock
<1>3. \A x \in ScriptOps : Suits(x) /\ x.do \notin Undoing
    <2> SUFFICES ASSUME NEW x \in ScriptOps PROVE Suits(x) /\ x.do \notin Undoing
        OBVIOUS
    <2>1. CASE x \in ClaimOps(File) \cup ReplaceOps(File) \cup ClaimOps({Receipt})
        BY <2>1, OfIs DEF Undoing
    <2>2. CASE x \in CleanupOps
        BY <1>2, <2>2, TidySuits DEF Undoing, Tidying
    <2>3. CASE x \in Only(Had(Receipt), Op("unlink", Receipt))
        BY <1>1, <2>3, OpFields DEF Only, Suits, Undoing
    <2>4. CASE x = Op("publish", Receipt)
        BY <1>1, <2>4, OpFields DEF Suits, Undoing
    <2>5. CASE \E name \in {"base", "writing", "files-claimed", "live-written", "receipt-claimed",
                             "receipt-published", "receipt-committed"} : x = Op(name, Receipt)
        BY <2>5, OpFields DEF Suits, Undoing
    <2> QED
        BY <2>1, <2>2, <2>3, <2>4, <2>5 DEF ScriptOps
<1>4. Line(Manager!Script)
    BY <1>3, LineOf, ScriptBlock, ScriptBegins DEF Begins
<1>5. Manager!Script # <<>> /\ Head(Manager!Script).do = "base"
    <2>1. Manager!Script \in Seq(Ops) /\ Manager!Script # <<>> /\ Manager!Script[1].do = "base"
        BY ScriptBegins DEF Begins
    <2> HIDE DEF Manager!Script
    <2>2. Head(Manager!Script) = Manager!Script[1]
        BY <2>1, HeadTailProperties
    <2> QED
        BY <2>1, <2>2
<1>6. Erase \in ScriptOps
    BY DEF ScriptOps, CleanupOps, Erase
<1>7. ASSUME NEW s \in Slot
      PROVE  /\ Op("unlink", s) \in ScriptOps <=> Changed(s) /\ Had(s)
             /\ Op("publish", s) \in ScriptOps <=> Gets(s)
             /\ Op("claim", s) \in ScriptOps <=> Changed(s)
             /\ Op("record", s) \in ScriptOps <=> Changed(s) /\ Had(s)
    <2>1. /\ \A name \in {"unlink", "publish", "claim", "record"} : Op(name, s).do = name /\ Op(name, s) \notin CleanupOps
          /\ s \in File \/ s = Receipt
        <3>1. \A name \in {"unlink", "publish", "claim", "record"} : Op(name, s).do = name /\ name \notin Tidying
            BY OpFields DEF Tidying
        <3> QED
            BY <1>2, <3>1, Slots
    <2>2. /\ \A set : Op("unlink", s) \in ReplaceOps(set) <=> s \in set /\ Changed(s) /\ Had(s)
          /\ \A set : Op("publish", s) \in ReplaceOps(set) <=> s \in set /\ Gets(s)
          /\ \A set : Op("claim", s) \in ClaimOps(set) <=> s \in set /\ Changed(s)
          /\ \A set : Op("record", s) \in ClaimOps(set) <=> s \in set /\ Changed(s) /\ Had(s)
        <3>1. "unlink" \in Names /\ "publish" \in Names /\ "claim" \in Names /\ "record" \in Names
            BY DEF Names
        <3> QED
            BY <3>1, OfIs DEF ReplaceOps, ClaimOps
    <2>3. /\ \A set : Op("unlink", s) \notin ClaimOps(set) /\ Op("publish", s) \notin ClaimOps(set)
          /\ \A set : Op("claim", s) \notin ReplaceOps(set) /\ Op("record", s) \notin ReplaceOps(set)
        BY <2>1, OfIs
    <2>4. \A name \in {"unlink", "publish", "claim", "record"} :
            Op(name, s) \notin {Op("base", Receipt), Op("writing", Receipt), Op("files-claimed", Receipt),
                                Op("live-written", Receipt), Op("receipt-claimed", Receipt),
                                Op("receipt-published", Receipt), Op("receipt-committed", Receipt)}
        BY SameOp
    <2>5. /\ \A name \in {"publish", "claim", "record"} : Op(name, s) \notin Only(Had(Receipt), Op("unlink", Receipt))
          /\ \A name \in {"unlink", "claim", "record"} : Op(name, s) # Op("publish", Receipt)
          /\ Op("unlink", s) \in Only(Had(Receipt), Op("unlink", Receipt)) <=> s = Receipt /\ Had(Receipt)
          /\ Op("publish", s) = Op("publish", Receipt) <=> s = Receipt
        BY SameOp DEF Only
    <2> QED
        BY <1>1, <2>1, <2>2, <2>3, <2>4, <2>5, Slots DEF ScriptOps
<1>8. \A op : Waits(Manager!Script, op) <=> op \in ScriptOps
    BY ScriptBlock DEF Block
<1> QED
    BY <1>3, <1>4, <1>5, <1>6, <1>7, <1>8

\* The script of an undo or of a repair: every file is withdrawn and given back, and the receipt
\* as the conditions say.
UndoOps(withdraws, returns) ==
    Only(withdraws, Op("withdraw", Receipt)) \cup Only(returns, Op("return", Receipt)) \cup RollBackOps \cup CleanupOps
Undoes(ops, withdraws, returns) ==
    /\ Line(ops) /\ Waits(ops, Erase) /\ \A op : Waits(ops, op) => op.do \in Undoing \cup Tidying
    /\ \A f \in File : /\ Waits(ops, Op("withdraw", f)) <=> Changed(f)
                       /\ Waits(ops, Op("return", f)) <=> Changed(f) /\ Had(f)
    /\ Waits(ops, Op("withdraw", Receipt)) <=> withdraws
    /\ Waits(ops, Op("return", Receipt)) <=> returns

LEMMA UndoParts ==
    /\ Op("withdraw", Receipt) \in Ops /\ Op("return", Receipt) \in Ops
    /\ Precedes(Op("withdraw", Receipt), Op("return", Receipt))
    /\ \A x \in RollBackOps : x.do \in Undoing /\ x.do # "base"
    /\ \A x \in RollBackOps : Precedes(x, Op("return", Receipt)) /\ Precedes(Op("withdraw", Receipt), x)
                              /\ Precedes(Op("return", Receipt), x)
    /\ \A x, y : x.do \in Undoing /\ y \in CleanupOps => Precedes(x, y)
    /\ "withdraw" \in Undoing /\ "return" \in Undoing
<1>1. Op("withdraw", Receipt) \in Ops /\ Op("return", Receipt) \in Ops
    BY OpsAre, Slots DEF Names
<1>2. \A name, s, y : name \in {"withdraw", "preflight"} => Precedes(Op(name, s), y)
    <2>1. {"withdraw", "preflight"} \subseteq Names \ (Tidying \cup {"unlink", "publish", "return"})
        BY DEF Names, Tidying
    <2> QED
        BY <2>1, FreeOps
<1>3. \A x \in RestoreOps(File) : x.do \in {"withdraw", "return"} /\ x.slot \in File
    BY OfIs
<1>4. \A x \in RollBackOps : x.do \in Undoing /\ x.do # "base"
    BY <1>3, OpFields DEF RollBackOps, Undoing
<1>5. ASSUME NEW x \in RollBackOps
      PROVE  Precedes(x, Op("return", Receipt)) /\ Precedes(Op("withdraw", Receipt), x)
             /\ Precedes(Op("return", Receipt), x)
    <2>1. CASE x = Op("preflight", Receipt)
        <3>1. x.do = "preflight" /\ Op("return", Receipt).do = "return" /\ "return" \notin Tidying
            BY <2>1, OpFields DEF Tidying
        <3>2. Precedes(Op("return", Receipt), x)
            BY <3>1, LaterFirst
        <3> QED
            BY <1>2, <2>1, <3>2
    <2>2. CASE x \in RestoreOps(File)
        <3>1. x.slot # Receipt /\ x.do \notin Tidying
            BY <1>3, <2>2, Slots DEF Tidying
        <3>2. /\ Op("return", Receipt).slot = Receipt /\ Op("return", Receipt).do = "return"
              /\ "return" \notin Tidying
            BY OpFields DEF Tidying
        <3> QED
            BY <1>2, <3>1, <3>2, OtherFirst
    <2> QED
        BY <2>1, <2>2 DEF RollBackOps
<1>6. ASSUME NEW x, NEW y, x.do \in Undoing, y \in CleanupOps PROVE Precedes(x, y)
    <2>1. x.do \notin Tidying /\ y.do \notin {"claim", "record", "unlink", "publish", "withdraw"}
        BY <1>6, CleanupBlock DEF Undoing, Tidying
    <2> QED
        BY <2>1, LaterFirst
<1> QED
    BY <1>1, <1>2, <1>4, <1>5, <1>6 DEF Undoing

LEMMA UndoBlock ==
    ASSUME NEW withdraws, NEW returns
    PROVE  Block((Manager!When(withdraws, Op("withdraw", Receipt)) \o Manager!When(returns, Op("return", Receipt)))
                 \o Manager!RestoreFiles \o Manager!Cleanup, UndoOps(withdraws, returns))
<1> DEFINE W == Only(withdraws, Op("withdraw", Receipt))
           R == Only(returns, Op("return", Receipt))
           a == Manager!When(withdraws, Op("withdraw", Receipt)) \o Manager!When(returns, Op("return", Receipt))
           b == a \o Manager!RestoreFiles
<1>1. Block(a, W \cup R)
    BY UndoParts, PairBlock
<1>2. \A x \in W \cup R : x = Op("withdraw", Receipt) \/ x = Op("return", Receipt)
    BY DEF Only
<1> HIDE DEF W, R, a
<1>3. Block(b, (W \cup R) \cup RollBackOps)
    <2>1. \A x \in W \cup R, y \in RollBackOps : Precedes(x, y)
        BY <1>2, UndoParts
    <2> QED
        BY <1>1, <2>1, RollBackBlock, Join
<1>4. \A x \in (W \cup R) \cup RollBackOps : x.do \in Undoing
    BY <1>2, UndoParts, OpFields
<1> HIDE DEF b
<1>5. Block(b \o Manager!Cleanup, ((W \cup R) \cup RollBackOps) \cup CleanupOps)
    <2>1. \A x \in (W \cup R) \cup RollBackOps, y \in CleanupOps : Precedes(x, y)
        BY <1>4, UndoParts
    <2> QED
        BY <1>3, <2>1, CleanupBlock, Join
<1> QED
    BY <1>5 DEF W, R, a, b, UndoOps

LEMMA RepairBlock ==
    ASSUME NEW returns
    PROVE  Block(Manager!RestoreFiles \o Manager!When(returns, Op("return", Receipt)) \o Manager!Cleanup,
                 UndoOps(FALSE, returns))
<1> DEFINE R == Only(returns, Op("return", Receipt))
           r == Manager!When(returns, Op("return", Receipt))
           b == Manager!RestoreFiles \o r
<1>1. Block(r, R)
    BY UndoParts, OnlyBlock
<1>2. \A x \in R : x = Op("return", Receipt)
    BY DEF Only
<1>3. Only(FALSE, Op("withdraw", Receipt)) = {}
    BY DEF Only
<1> HIDE DEF R, r
<1>4. Block(b, RollBackOps \cup R)
    <2>1. \A x \in RollBackOps, y \in R : Precedes(x, y)
        BY <1>2, UndoParts
    <2> QED
        BY <1>1, <2>1, RollBackBlock, Join
<1>5. \A x \in RollBackOps \cup R : x.do \in Undoing
    BY <1>2, UndoParts, OpFields
<1> HIDE DEF b
<1>6. Block(b \o Manager!Cleanup, (RollBackOps \cup R) \cup CleanupOps)
    <2>1. \A x \in RollBackOps \cup R, y \in CleanupOps : Precedes(x, y)
        BY <1>5, UndoParts
    <2> QED
        BY <1>4, <2>1, CleanupBlock, Join
<1>7. (RollBackOps \cup R) \cup CleanupOps = UndoOps(FALSE, returns)
    BY <1>3 DEF UndoOps, R
<1> QED
    BY <1>6, <1>7 DEF b, r

LEMMA UndoHas ==
    ASSUME NEW withdraws, NEW returns, NEW ops, Block(ops, UndoOps(withdraws, returns)), Changed(Receipt),
           returns => Had(Receipt)
    PROVE  Undoes(ops, withdraws, returns)
<1>1. \A op : Waits(ops, op) <=> op \in UndoOps(withdraws, returns)
    BY DEF Block
<1>2. \A x \in CleanupOps : x.do \in Tidying
    BY CleanupBlock
<1>3. ASSUME NEW x \in UndoOps(withdraws, returns)
      PROVE  Suits(x) /\ x.do # "base" /\ x.do \in Undoing \cup Tidying
    <2>1. CASE x \in CleanupOps
        BY <1>2, <2>1, TidySuits
    <2>2. CASE x \in RestoreOps(File)
        BY <2>2, OfIs DEF Undoing
    <2>3. CASE x = Op("preflight", Receipt)
        BY <2>3, TidySuits, OpFields DEF Undoing
    <2>4. CASE x \in Only(withdraws, Op("withdraw", Receipt)) \cup Only(returns, Op("return", Receipt))
        BY <2>4, OpFields DEF Only, Suits, Undoing
    <2> QED
        BY <2>1, <2>2, <2>3, <2>4 DEF UndoOps, RollBackOps
<1>4. Line(ops)
    BY <1>3, NoBase
<1>5. Erase \in UndoOps(withdraws, returns)
    BY DEF UndoOps, CleanupOps, Erase
<1>6. ASSUME NEW s \in Slot
      PROVE  /\ Op("withdraw", s) \in UndoOps(withdraws, returns)
                <=> (s \in File /\ Changed(s)) \/ (s = Receipt /\ withdraws)
             /\ Op("return", s) \in UndoOps(withdraws, returns)
                <=> (s \in File /\ Changed(s) /\ Had(s)) \/ (s = Receipt /\ returns)
    <2>1. Op("withdraw", s) \notin CleanupOps /\ Op("return", s) \notin CleanupOps
        BY <1>2, OpFields DEF Tidying
    <2>2. /\ Op("withdraw", s) \in RestoreOps(File) <=> s \in File /\ Changed(s)
          /\ Op("return", s) \in RestoreOps(File) <=> s \in File /\ Changed(s) /\ Had(s)
        <3>1. "withdraw" \in Names /\ "return" \in Names
            BY DEF Names
        <3> QED
            BY <3>1, OfIs DEF RestoreOps
    <2>3. Op("withdraw", s) # Op("preflight", Receipt) /\ Op("return", s) # Op("preflight", Receipt)
        BY SameOp
    <2>4. /\ Op("withdraw", s) \in Only(withdraws, Op("withdraw", Receipt)) <=> s = Receipt /\ withdraws
          /\ Op("withdraw", s) \notin Only(returns, Op("return", Receipt))
          /\ Op("return", s) \in Only(returns, Op("return", Receipt)) <=> s = Receipt /\ returns
          /\ Op("return", s) \notin Only(withdraws, Op("withdraw", Receipt))
        BY SameOp DEF Only
    <2> QED
        BY <2>1, <2>2, <2>3, <2>4 DEF UndoOps, RollBackOps
<1> QED
    BY <1>1, <1>3, <1>4, <1>5, <1>6, Slots DEF Undoes

LEMMA WholeBegin == ASSUME WholeInv, Manager!Begin PROVE WholeInv'
<1>1. /\ mode = "new" /\ mode' = "commit" /\ todo' = Manager!Script /\ prepared' = {s \in Slot : Gets(s)}
      /\ UNCHANGED <<public, claim, kind, spoiled, edited, edits, journal, half>>
    BY PlansAre, Slots DEF Manager!Begin, Manager!BeginWith, Manager!users, Manager!ledger
<1>2. AllBefore /\ journal = <<>> /\ ~half /\ claim = {} /\ edits = 0 /\ edited = {}
    BY <1>1 DEF WholeInv, Stage, Shape
<1>3. /\ Line(todo') /\ todo' # <<>> /\ Head(todo').do = "base" /\ Waits(todo', Erase)
      /\ \A op : Waits(todo', op) => op.do \notin Undoing
      /\ \A s \in Slot : /\ Waits(todo', Op("unlink", s)) <=> Changed(s) /\ Had(s)
                         /\ Waits(todo', Op("publish", s)) <=> Gets(s)
                         /\ Waits(todo', Op("claim", s)) <=> Changed(s)
                         /\ Waits(todo', Op("record", s)) <=> Changed(s) /\ Had(s)
    BY <1>1, ScriptHas DEF WholeInv, Shape
<1>4. Shape'
    <2>1. Ledger'
        BY <1>1, LedgerStays DEF WholeInv, Shape
    <2>2. Doing'
        BY <1>1, <1>3 DEF Doing
    <2> QED
        BY <1>1, <1>3, <2>1, <2>2, ShapeOn DEF WholeInv, Shape, Named
<1>5. AllBefore'
    BY <1>1, <1>2, FilesStay
<1>6. Forth(todo)'
    <2>1. ASSUME NEW s \in Slot
          PROVE  public[s] = IF Waits(todo', Op("unlink", s)) THEN Before(s)
                             ELSE IF Waits(todo', Op("publish", s)) THEN "none" ELSE After(s)
        BY <1>2, <1>3, PlanFacts DEF AllBefore
    <2>2. \A s \in Slot : Waits(todo', Op("unlink", s)) /\ Gets(s) => Waits(todo', Op("publish", s))
        BY <1>3
    <2> QED
        BY <1>1, <2>1, <2>2, PlansStay DEF Forth
<1>7. Claimed(todo)'
    BY <1>1, <1>3, PlansStay DEF Claimed
<1>8. prepared' = {s \in Slot : Gets(s)'}
    BY <1>1, PlansStay
<1>9. Committing'
    BY <1>1, <1>2, <1>3, <1>5, <1>6, <1>7, <1>8 DEF Committing, Writing
<1> QED
    BY <1>1, <1>4, <1>5, <1>9, TidyNext DEF WholeInv, Stage

\* The catch of a commit: what it starts gives back whatever the commit had changed.
LEMMA WholeUndo ==
    ASSUME WholeInv, todo # <<>>, mode = "commit", Head(todo).do \notin Tidying, journal # <<>>,
           Manager!Undo, UNCHANGED <<links, users, ledger>>
    PROVE  WholeInv'
<1> DEFINE committed == ~Waits(todo, Op("publish", Receipt))
           taken == Had(Receipt) /\ ~Waits(todo, Op("claim", Receipt))
           ops == (Manager!When(committed, Op("withdraw", Receipt)) \o Manager!When(taken, Op("return", Receipt)))
                  \o Manager!RestoreFiles \o Manager!Cleanup
<1>1. CASE Manager!Stop
    BY <1>1, Stops
<1>2. CASE mode' = "undo" /\ todo' = ops
    <2>1. UNCHANGED <<public, claim, prepared, kind, spoiled, edited, edits, journal, half>>
        BY DEF links, users, ledger
    <2>2. Head(todo).do \notin Tidying \cup Undoing
        <3>1. Waits(todo, Head(todo))
            BY Onward DEF WholeInv, Shape
        <3> QED
            BY <3>1 DEF WholeInv, Shape, Doing
    <2>3. /\ Forth(todo) /\ Claimed(todo) /\ Reach /\ (edits = 0 => \A s \in Slot : Sound(s))
        BY <2>2, InCommit
    <2>4. Changed(Receipt) /\ Gets(Receipt) /\ Receipt \in Slot
        BY PlanFacts, Slots DEF WholeInv, Shape
    <2>5. Undoes(todo', committed, taken)
        <3>1. Block(ops, UndoOps(committed, taken))
            BY UndoBlock
        <3> HIDE DEF ops, committed
        <3>2. Undoes(ops, committed, taken)
            BY <2>4, <3>1, UndoHas
        <3> QED
            BY <1>2, <3>2
    <2>6. ASSUME Had(Receipt), Waits(todo, Op("claim", Receipt))
          PROVE  Waits(todo, Op("unlink", Receipt)) /\ Waits(todo, Op("publish", Receipt))
        BY <2>3, <2>4, <2>6 DEF Claimed, Forth
    <2>7. Waits(todo, Op("unlink", Receipt)) => Had(Receipt)
        BY OpFields DEF WholeInv, Shape, Line, Suits
    <2>8. Back(todo)'
        <3>1. ASSUME NEW s \in Slot \ edited
              PROVE  Waits(todo', Op("withdraw", s)) \/ Waits(todo', Op("return", s)) \/ public[s] = Before(s)
            <4>1. CASE s \in File /\ Changed(s)
                BY <2>5, <4>1 DEF Undoes
            <4>2. CASE ~Changed(s)
                BY <4>2 DEF WholeInv, Shape
            <4>3. CASE s = Receipt
                <5>1. CASE committed \/ taken
                    BY <2>5, <4>3, <5>1 DEF Undoes
                <5>2. CASE ~committed /\ Had(Receipt) /\ Waits(todo, Op("claim", Receipt))
                    BY <2>3, <2>6, <4>3, <5>2 DEF Forth
                <5>3. CASE ~committed /\ ~Had(Receipt)
                    <6>1. public[Receipt] = "none"
                        BY <2>3, <2>7, <4>3, <5>3 DEF Forth
                    <6> QED
                        BY <4>3, <5>3, <6>1, PlanFacts
                <5> QED
                    BY <5>1, <5>2, <5>3
            <4> QED
                BY <4>1, <4>2, <4>3, Slots
        <3>2. ASSUME NEW s \in Slot, Waits(todo', Op("withdraw", s)), Had(s) PROVE Waits(todo', Op("return", s))
            <4>1. CASE s \in File
                BY <2>5, <3>2, <4>1 DEF Undoes
            <4>2. CASE s = Receipt
                BY <2>5, <2>6, <3>2, <4>2 DEF Undoes
            <4> QED
                BY <4>1, <4>2, Slots
        <3> QED
            BY <2>1, <3>1, <3>2, PlansStay DEF Back
    <2>9. Shape'
        <3>1. Ledger'
            BY <2>1, LedgerStays DEF WholeInv, Shape
        <3>2. Doing' /\ Line(todo')
            <4>1. todo' # <<>> /\ Waits(todo', Erase)
                BY <2>5, NothingWaits DEF Undoes
            <4> QED
                BY <1>2, <2>5, <4>1 DEF Doing, Undoes
        <3> QED
            BY <2>1, <3>1, <3>2, ShapeOn DEF WholeInv, Shape, Named
    <2>10. Cover'
        <3>1. Reach'
            BY <2>1, <2>3, PlansStay DEF Reach
        <3>2. ASSUME edits = 0, NEW s \in Slot PROVE Sound(s)'
            BY <2>1, <2>3, <3>2 DEF Sound, Manager!Recorded
        <3> QED
            BY <2>1, <3>1, <3>2 DEF Cover
    <2> QED
        BY <1>2, <2>1, <2>8, <2>9, <2>10 DEF WholeInv, Stage
<1> QED
    BY <1>1, <1>2, OpIs, Slots, ManagerIs, PlansAre DEF Manager!Undo

LEMMA WholeAbandon ==
    ASSUME WholeInv, todo # <<>>, Manager!Abandon, UNCHANGED <<links, users, ledger>>,
           mode = "commit" /\ Head(todo).do \notin Tidying => journal # <<>>
    PROVE  WholeInv'
<1>1. CASE mode = "commit" /\ Head(todo).do \notin Tidying
    <2>1. Manager!Undo
        BY <1>1 DEF Manager!Abandon, Manager!Due, Manager!Final, Tidying
    <2> QED
        BY <1>1, <2>1, WholeUndo
<1>2. CASE ~(mode = "commit" /\ Head(todo).do \notin Tidying)
    <2>1. Manager!Stop
        BY <1>2 DEF Manager!Abandon, Manager!Due, Manager!Final, Tidying
    <2> QED
        BY <2>1, Stops
<1> QED
    BY <1>1, <1>2

LEMMA WholeRefuse == ASSUME WholeInv, Manager!Refuse PROVE WholeInv'
<1>1. /\ todo # <<>> /\ ~Manager!Checked(Head(todo)) /\ Manager!Abandon
      /\ UNCHANGED <<links, users, ledger>>
    BY DEF Manager!Refuse, Manager!links, Manager!users, Manager!ledger, links, users, ledger
<1>2. ASSUME journal = <<>>, mode = "commit", Head(todo).do \notin Tidying PROVE FALSE
    <2>1. /\ Head(todo).do = "base" /\ AllBefore /\ edits = 0 /\ edited = {} /\ spoiled = {}
        BY <1>1, <1>2, NoJournal DEF WholeInv, Shape
    <2>2. Forth(todo)
        BY <1>2 DEF WholeInv, Stage, Committing
    <2>3. \A s, inode : public[s] = inode => Manager!Holds(s, inode)
        BY <2>1, ManagerIs DEF Holds, Intact
    <2>4. \A s \in Slot : public[s] = Before(s)
        BY <2>1 DEF AllBefore
    <2>5. Manager!Baseline
        BY <2>3, <2>4, Slots, ManagerPlans DEF Manager!Baseline
    <2>6. ASSUME NEW f \in File, f \in Manager!Published PROVE public[f] = After(f)
        <3>1. ~Waits(todo, Op("unlink", f)) /\ ~Waits(todo, Op("publish", f))
            BY <2>6, ManagerIs DEF Manager!Published
        <3> QED
            BY <2>1, <2>2, <3>1, Slots DEF Forth
    <2>7. Manager!ReadSet({})
        BY <2>3, <2>4, <2>6, Slots, ManagerPlans DEF Manager!ReadSet
    <2> QED
        BY <1>1, <2>1, <2>5, <2>7 DEF Manager!Checked
<1> QED
    BY <1>1, <1>2, WholeAbandon

LEMMA WholeFault == ASSUME WholeInv, Manager!Fault PROVE WholeInv'
<1>1. /\ todo # <<>> /\ Head(todo).do \notin Manager!Journaled /\ Manager!Abandon
      /\ UNCHANGED <<links, users, ledger>>
    BY DEF Manager!Fault, Manager!Due, Manager!links, Manager!users, Manager!ledger, links, users, ledger
<1>2. journal # <<>>
    BY <1>1, NoJournal DEF Manager!Journaled, Manager!Phase
<1> QED
    BY <1>1, <1>2, WholeAbandon

LEMMA WholeCrash == ASSUME WholeInv, Manager!Crash PROVE WholeInv'
<1>1. todo # <<>> /\ Manager!Stop /\ UNCHANGED <<links, users, ledger>>
    BY DEF Manager!Crash, Manager!CrashCommand, Manager!links, Manager!users, Manager!ledger, links, users, ledger
<1> QED
    BY <1>1, Stops

LEMMA WholeRecover == ASSUME WholeInv, Manager!Recover PROVE WholeInv'
<1>1. /\ mode = "idle" /\ mode' = "recover" /\ journal # <<>>
      /\ UNCHANGED <<public, claim, prepared, kind, spoiled, edited, edits, journal, half>>
      /\ (Manager!Forward /\ Manager!FilesAfter) \/ (Manager!Backward /\ Manager!Restorable)
      /\ todo' = IF Manager!Forward THEN Manager!Cleanup
                 ELSE Manager!RestoreFiles \o Manager!When(Manager!ClaimedBefore, Op("return", Receipt))
                      \o Manager!Cleanup
    BY OpIs, Slots DEF Manager!Recover, Manager!Repairable, Manager!Readable, Manager!links, Manager!users,
       Manager!ledger
<1>2. Changed(Receipt) /\ Gets(Receipt) /\ Receipt \in Slot /\ After(Receipt) = "after"
    BY PlanFacts, Slots DEF WholeInv, Shape
<1>3. Ledger'
    BY <1>1, LedgerStays DEF WholeInv, Shape
<1>4. Manager!Backward => /\ public[Receipt] # "after" /\ ~Manager!Forward
                          /\ \/ public[Receipt] = Before(Receipt)
                             \/ Manager!ClaimedBefore /\ public[Receipt] = "none" /\ Had(Receipt) /\ Receipt \in claim
    BY Slots, ManagerIs, ManagerPlans, PlansAre, PlanFacts
       DEF Manager!Backward, Manager!Forward, Manager!Baseline, Manager!ClaimedBefore, Holds
<1>5. CASE Manager!Forward
    <2>1. Manager!FilesAfter /\ public[Receipt] = "after"
        BY <1>1, <1>4, <1>5, Slots, ManagerIs DEF Manager!Forward, Holds
    <2>2. AllAfter
        <3> SUFFICES ASSUME NEW s \in Slot \ edited PROVE public[s] = After(s)
            BY DEF AllAfter
        <3>1. CASE s = Receipt
            BY <1>2, <2>1, <3>1
        <3>2. CASE ~Changed(s)
            BY <3>2, PlanFacts DEF WholeInv, Shape
        <3>3. CASE s \in File /\ Changed(s)
            <4>1. Manager!Class(s) = After(s)
                BY <2>1, <3>3, Slots, PlansAre, ManagerPlans DEF Manager!FilesAfter
            <4>2. After(s) \in {"none", "after"}
                BY <3>3, PlanFacts
            <4> QED
                BY <4>1, <4>2, ClassIs DEF Holds
        <3> QED
            BY <3>1, <3>2, <3>3, Slots
    <2>3. Tidy(todo') /\ Line(todo') /\ Waits(todo', Erase)
        <3>1. Block(todo', CleanupOps) /\ \A x \in CleanupOps : x.do \in Tidying
            BY <1>1, <1>5, CleanupBlock
        <3>2. \A x \in CleanupOps : Suits(x) /\ x.do # "base"
            BY <3>1, TidySuits
        <3>3. Erase \in CleanupOps
            BY DEF CleanupOps, Erase
        <3> QED
            BY <3>1, <3>2, <3>3, NoBase DEF Tidy, Block
    <2>4. Doing'
        <3>1. \A op : Waits(todo', op) => op.do \in Tidying
            BY <2>3 DEF Tidy
        <3> QED
            BY <1>1, <2>3, <3>1 DEF Doing
    <2>5. Shape'
        BY <1>1, <1>3, <2>3, <2>4, ShapeOn DEF WholeInv, Shape, Named
    <2>6. Over'
        <3>1. AllAfter' /\ Tidy(todo)'
            BY <1>1, <2>2, <2>3, FilesStay DEF Tidy
        <3> QED
            BY <3>1 DEF Over
    <2> QED
        BY <1>1, <2>5, <2>6 DEF WholeInv, Stage, Cover
<1>6. CASE ~Manager!Forward
    <2>1. Manager!Backward /\ Manager!Restorable
        BY <1>1, <1>6
    <2> DEFINE claimed == Manager!ClaimedBefore
    <2>2. claimed => Had(Receipt)
        BY PlansAre, Slots DEF Manager!ClaimedBefore
    <2> HIDE DEF claimed
    <2>3. Undoes(todo', FALSE, claimed)
        <3>1. Block(todo', UndoOps(FALSE, claimed))
            BY <1>1, <1>6, RepairBlock DEF claimed
        <3> QED
            BY <1>2, <2>2, <3>1, UndoHas
    <2>4. Shape'
        <3>1. Doing' /\ Line(todo')
            <4>1. todo' # <<>> /\ Waits(todo', Erase)
                BY <2>3, NothingWaits DEF Undoes
            <4> QED
                BY <1>1, <2>3, <4>1 DEF Doing, Undoes
        <3> QED
            BY <1>1, <1>3, <3>1, ShapeOn DEF WholeInv, Shape, Named
    <2>5. Back(todo)'
        <3>1. ASSUME NEW s \in Slot \ edited
              PROVE  Waits(todo', Op("withdraw", s)) \/ Waits(todo', Op("return", s)) \/ public[s] = Before(s)
            <4>1. CASE s \in File /\ Changed(s)
                BY <2>3, <4>1 DEF Undoes
            <4>2. CASE ~Changed(s)
                BY <4>2 DEF WholeInv, Shape
            <4>3. CASE s = Receipt
                BY <1>4, <2>1, <2>3, <4>3 DEF Undoes, claimed
            <4> QED
                BY <4>1, <4>2, <4>3, Slots
        <3>2. ASSUME NEW s \in Slot, Waits(todo', Op("withdraw", s)), Had(s) PROVE Waits(todo', Op("return", s))
            <4>1. CASE s \in File
                BY <2>3, <3>2, <4>1 DEF Undoes
            <4>2. CASE s = Receipt
                BY <2>3, <3>2, <4>2 DEF Undoes
            <4> QED
                BY <4>1, <4>2, Slots
        <3> QED
            BY <1>1, <3>1, <3>2, PlansStay DEF Back
    <2>6. Reach'
        <3>1. ASSUME NEW s \in Slot \ edited, Had(s) PROVE public[s] = "before" \/ s \in claim
            <4>1. CASE s \in File /\ Changed(s)
                <5>1. Manager!Class(s) = "before" \/ s \in claim
                    BY <2>1, <3>1, <4>1, Slots, PlansAre DEF Manager!Restorable
                <5> QED
                    BY <5>1, ClassIs DEF Holds
            <4>2. CASE ~Changed(s)
                BY <4>2, PlanFacts DEF WholeInv, Shape
            <4>3. CASE s = Receipt
                BY <1>4, <2>1, <3>1, <4>3, PlanFacts
            <4> QED
                BY <4>1, <4>2, <4>3, Slots
        <3> QED
            BY <1>1, <3>1, PlansStay DEF Reach
    <2>7. ASSUME edits = 0, NEW s \in Slot PROVE Sound(s)'
        <3>1. ~Over
            BY <1>2, <1>4, <2>1, <2>7 DEF WholeInv, Shape, Over, AllAfter
        <3> QED
            BY <1>1, <2>7, <3>1 DEF WholeInv, Cover, Sound, Manager!Recorded
    <2> QED
        BY <1>1, <2>4, <2>5, <2>6, <2>7 DEF WholeInv, Stage, Cover
<1> QED
    BY <1>5, <1>6

LEMMA WholeInit == ASSUME Manager!Init PROVE WholeInv
<1>1. /\ public = [s \in Slot |-> Before(s)] /\ claim = {} /\ spoiled = {} /\ edited = {}
      /\ mode = "new" /\ todo = <<>> /\ edits = 0 /\ kind[Receipt] \in {"replace", "create"}
      /\ journal = <<>> /\ half = FALSE
    BY Slots, ManagerPlans DEF Manager!Init, Manager!FilesInit
<1>2. \A s \in Slot : public[s] = Before(s)
    BY <1>1
<1>3. Named
    BY <1>1, Planned DEF Named
<1>4. Ledger /\ Doing /\ Line(todo)
    <2>1. journal \in Seq(SUBSET Slot)
        BY <1>1, EmptySeq
    <2> QED
        BY <1>1, <2>1, NothingWaits DEF Ledger, Doing
<1>5. Shape
    BY <1>1, <1>2, <1>3, <1>4, PlanFacts DEF Shape
<1>6. AllBefore
    BY <1>2 DEF AllBefore
<1> QED
    BY <1>1, <1>5, <1>6, BeforeCovers DEF WholeInv, Stage

LEMMA WholeNext == ASSUME WholeInv, Manager!Next PROVE WholeInv'
BY WholeBegin, WholeData, WholeAnchor, WholeClaim, WholeUnlink, WholePublish, WholePreflight, WholeWithdraw,
   WholeReturn, WholeDrop, WholeEraseAnchor, WholeEraseData, WholeRefuse, WholeFault, WholeJournalFault,
   WholeCrash, WholeRecover, WholeEdit DEF Manager!Next

LEMMA WholeStays == ASSUME WholeInv, UNCHANGED vars PROVE WholeInv'
<1>1. /\ UNCHANGED <<public, claim, prepared, kind, spoiled, edited, edits, mode, todo, journal, half>>
    BY DEF vars, files, links, users, command, ledger
<1>2. Shape'
    <2>1. Ledger' /\ Doing' /\ Line(todo')
        BY <1>1 DEF WholeInv, Shape, Ledger, Doing
    <2> QED
        BY <1>1, <2>1, ShapeOn DEF WholeInv, Shape, Named
<1>3. Stage'
    <2>1. Writing => Writing'
        BY <1>1, PlansStay DEF Writing, Claimed, Confirmed, Manager!Recorded
    <2>2. Committing => Committing'
        BY <1>1, <2>1, FilesStay DEF Committing
    <2>3. Over => Over'
        BY <1>1, FilesStay DEF Over, Tidy
    <2> QED
        BY <1>1, <2>2, <2>3, FilesStay DEF WholeInv, Stage
<1>4. Cover'
    <2>1. Over => Over'
        BY <1>1, FilesStay DEF Over, Tidy
    <2>2. Reach => Reach'
        BY <1>1, PlansStay DEF Reach
    <2>3. \A s \in Slot : Sound(s) => Sound(s)'
        BY <1>1 DEF Sound, Manager!Recorded
    <2> QED
        BY <1>1, <2>1, <2>2, <2>3 DEF WholeInv, Cover
<1> QED
    BY <1>2, <1>3, <1>4 DEF WholeInv

LEMMA WholeMeans ==
    ASSUME WholeInv
    PROVE  OriginalsReachable /\ Manager!WholeOrJournaled /\ Manager!RollbackRepairable
<1>1. OriginalsReachable
    BY DEF WholeInv, Cover, Over, Reach, OriginalsReachable
<1>2. Manager!WholeOrJournaled
    BY ManagerIs DEF WholeInv, Stage, Manager!WholeOrJournaled
<1>3. Manager!RollbackRepairable
    <2> SUFFICES ASSUME mode = "idle", Manager!Readable, edits = 0, public[Receipt] # "after"
                 PROVE  Manager!Repairable
        BY Slots DEF Manager!RollbackRepairable
    <2>1. edited = {} /\ spoiled = {} /\ After(Receipt) = "after" /\ Receipt \in Slot
        BY PlanFacts, Slots DEF WholeInv, Shape
    <2>2. Reach /\ \A s \in Slot : Sound(s)
        BY <2>1 DEF WholeInv, Cover, Over, AllAfter
    <2>3. \A s, inode : /\ Manager!Intact(s, inode) /\ (Holds(s, inode) <=> public[s] = inode)
                        /\ (Manager!Holds(s, inode) <=> public[s] = inode)
        BY <2>1, ManagerIs DEF Holds, Intact
    <2>4. \A s \in Slot : ~Manager!Ambiguous(s)
        BY <2>2, <2>3 DEF Manager!Ambiguous, Sound
    <2>5. \A s \in Slot : public[s] \in {"none", "before", "after"}
        BY <2>2 DEF Sound, WholeInv, Shape, Named, Inodes
    <2>6. Manager!Backward
        <3>1. CASE Had(Receipt) /\ public[Receipt] = "before"
            BY <2>3, <3>1, PlanFacts, ManagerPlans, Slots DEF Manager!Backward, Manager!Baseline
        <3>2. CASE Had(Receipt) /\ public[Receipt] # "before"
            <4>1. Receipt \in claim /\ public[Receipt] = "none"
                BY <2>1, <2>2, <2>5, <3>2 DEF Reach
            <4> QED
                BY <3>2, <4>1, PlansAre, Slots DEF Manager!Backward, Manager!ClaimedBefore
        <3>3. CASE ~Had(Receipt)
            <4>1. public[Receipt] = "none" /\ Before(Receipt) = "none"
                BY <2>1, <2>5, <3>3, PlanFacts DEF WholeInv, Shape
            <4> QED
                BY <2>3, <4>1, ManagerPlans, Slots DEF Manager!Backward, Manager!Baseline
        <3> QED
            BY <3>1, <3>2, <3>3
    <2>7. Manager!Restorable
        <3> SUFFICES ASSUME NEW f \in File
                     PROVE  /\ ~Manager!Ambiguous(f) /\ Manager!Class(f) # "third"
                            /\ Had(f) => Manager!Class(f) = "before" \/ f \in claim
            BY Slots, PlansAre DEF Manager!Restorable
        <3>1. f \in Slot
            BY Slots
        <3>2. public[f] = "after" => f \in prepared
            BY <2>2, <3>1 DEF Sound
        <3>3. Manager!Class(f) # "third"
            BY <2>3, <2>5, <3>1, <3>2, ClassIs
        <3> QED
            BY <2>1, <2>2, <2>3, <2>4, <3>1, <3>3, ClassIs DEF Reach
    <2> QED
        BY <2>1, <2>4, <2>6, <2>7, Slots DEF Manager!Repairable
<1> QED
    BY <1>1, <1>2, <1>3

-----------------------------------------------------------------------------
(* The scripts of the installer.                                           *)

LEMMA DirectOp == \A name, s : Direct!Do(name, s) = Op(name, s)
BY DEF Direct!Do, Op

\* What a rollback does of a slot that counts as changed.
TakeBackOps(started, set) ==
    Of({"withdraw"}, {s \in set : s \in started /\ Gets(s)}) \cup Of({"return"}, {s \in set : s \in started /\ Had(s)})
\* The files of a rollback, the last one first.
TakesBack(started) == [i \in 1 .. Files + 1 - 0 |-> Direct!RestoresMutated(started, Files + 1 - i)]

LEMMA TakesBackBlock ==
    ASSUME NEW started
    PROVE  \A s \in Slot : Block(Direct!RestoresMutated(started, s), TakeBackOps(started, {s}))
<1> SUFFICES ASSUME NEW s \in Slot PROVE Block(Direct!RestoresMutated(started, s), TakeBackOps(started, {s}))
    OBVIOUS
<1>1. Op("withdraw", s) \in Ops /\ Op("return", s) \in Ops /\ "withdraw" \in Names /\ "return" \in Names
    BY OpsAre DEF Names
<1>2. Precedes(Op("withdraw", s), Op("return", s))
    <2>1. "withdraw" \in Names \ (Tidying \cup {"unlink", "publish", "return"})
        BY DEF Tidying, Names
    <2> QED
        BY <2>1, FreeOps
<1> DEFINE gets == s \in started /\ Gets(s)
           had == s \in started /\ Had(s)
           a == Only(gets, Op("withdraw", s))
           b == Only(had, Op("return", s))
<1>3. Block(Direct!When(gets, Op("withdraw", s)) \o Direct!When(had, Op("return", s)), a \cup b)
    BY <1>1, <1>2, PairBlock
<1>4. a = Of({"withdraw"}, {t \in {s} : t \in started /\ Gets(t)}) /\ b = Of({"return"}, {t \in {s} : t \in started /\ Had(t)})
    <2>1. /\ Of({"withdraw"}, {s}) = {Op("withdraw", s)} /\ Of({"withdraw"}, {}) = {}
          /\ Of({"return"}, {s}) = {Op("return", s)} /\ Of({"return"}, {}) = {}
        BY <1>1, OfOne
    <2>2. a = IF gets THEN {Op("withdraw", s)} ELSE {}
        BY DEF Only
    <2>3. b = IF had THEN {Op("return", s)} ELSE {}
        BY DEF Only
    <2>4. /\ {t \in {s} : t \in started /\ Gets(t)} = IF gets THEN {s} ELSE {}
          /\ {t \in {s} : t \in started /\ Had(t)} = IF had THEN {s} ELSE {}
        OBVIOUS
    <2> QED
        BY <2>1, <2>2, <2>3, <2>4
<1>5. Direct!RestoresMutated(started, s) = Direct!When(gets, Op("withdraw", s)) \o Direct!When(had, Op("return", s))
    BY DirectOp, PlansAre DEF Direct!RestoresMutated, Direct!When
<1> QED
    BY <1>3, <1>4, <1>5 DEF TakeBackOps

LEMMA SlotBlocks ==
    ASSUME NEW started
    PROVE  /\ Block(Direct!PerSlot(0, Direct!Claims), Of({"claim"}, {t \in Slot : Changed(t)}))
           /\ Block(Direct!PerSlot(0, Direct!Replaces), ReplaceOps(Slot))
           /\ Block(Direct!PerSlot(0, Direct!Drops), DropOps(Slot))
           /\ Block(Direct!FlattenSeq(TakesBack(started)), TakeBackOps(started, Slot))
<1> DEFINE n == Files + 1 - 0
           up == Up(0)
           down == Down(0)
<1>1. Slot = 0 .. Files
    BY DEF Slot
<1>2. /\ n \in Nat /\ \A i \in 1 .. n : up[i] \in Slot /\ down[i] \in Slot
      /\ \A i, j \in 1 .. n : i < j => up[i] # up[j] /\ down[i] # down[j]
      /\ \A s \in Slot : (\E i \in 1 .. n : up[i] = s) /\ (\E i \in 1 .. n : down[i] = s)
    <2>1. 0 \in 0 .. 1
        OBVIOUS
    <2> HIDE DEF n, up, down
    <2> QED
        BY <1>1, <2>1, Orders DEF n, up, down
<1>3. \A i \in 1 .. n : up[i] = 0 + i - 1 /\ down[i] = Files + 1 - i
    BY DEF Up, Down
<1> HIDE DEF up, down
<1>4. Block(Direct!PerSlot(0, Direct!Claims), Of({"claim"}, {t \in Slot : Changed(t)}))
    <2> DEFINE seq == [i \in 1 .. n |-> Direct!Claims(0 + i - 1)]
               sets == [s \in Slot |-> Of({"claim"}, {t \in {s} : Changed(t)})]
    <2>1. Direct!PerSlot(0, Direct!Claims) = Direct!FlattenSeq(seq)
        BY DEF Direct!PerSlot
    <2>2. \A i \in 1 .. n : Block(seq[i], sets[up[i]])
        <3>1. \A i \in 1 .. n : seq[i] = Direct!Claims(up[i])
            BY <1>3
        <3>2. \A s \in Slot : Block(Direct!Claims(s), sets[s])
            BY ClaimsBlock
        <3> HIDE DEF seq, sets, n
        <3> QED
            BY <1>2, <3>1, <3>2
    <2>3. \A s, t \in Slot : s # t => \A x \in sets[s], y \in sets[t] : Precedes(x, y)
        BY FreeOps
    <2>4. \A op : op \in Of({"claim"}, {t \in Slot : Changed(t)}) <=> \E s \in Slot : op \in sets[s]
        BY OfSlots
    <2>5. seq = [i \in 1 .. n |-> seq[i]]
        OBVIOUS
    <2> HIDE DEF seq, sets, n
    <2>6. Arranged(n, seq, Slot, up, sets, Of({"claim"}, {t \in Slot : Changed(t)}))
        <3>1. \A i \in 1 .. n : up[i] \in Slot /\ Block(seq[i], sets[up[i]])
            BY <1>2, <2>2
        <3>2. n \in Nat /\ \A i, j \in 1 .. n : i < j => up[i] # up[j]
            BY <1>2
        <3>3. \A s \in Slot : \E i \in 1 .. n : up[i] = s
            BY <1>2
        <3> QED
            BY <2>3, <2>4, <2>5, <3>1, <3>2, <3>3 DEF Arranged
    <2>7. Block(Direct!FlattenSeq(seq), Of({"claim"}, {t \in Slot : Changed(t)}))
        BY <2>6, EachBlock
    <2> QED
        BY <2>1, <2>7
<1>5. Block(Direct!PerSlot(0, Direct!Replaces), ReplaceOps(Slot))
    <2> DEFINE seq == [i \in 1 .. n |-> Direct!Replaces(0 + i - 1)]
               sets == [s \in Slot |-> ReplaceOps({s})]
    <2>1. Direct!PerSlot(0, Direct!Replaces) = Direct!FlattenSeq(seq)
        BY DEF Direct!PerSlot
    <2>2. \A i \in 1 .. n : Block(seq[i], sets[up[i]])
        <3>1. \A i \in 1 .. n : seq[i] = Direct!Replaces(up[i])
            BY <1>3
        <3>2. \A s \in Slot : Block(Direct!Replaces(s), sets[s])
            BY ReplacesBlock
        <3> HIDE DEF seq, sets, n
        <3> QED
            BY <1>2, <3>1, <3>2
    <2>3. \A s, t \in Slot : s # t => \A x \in sets[s], y \in sets[t] : Precedes(x, y)
        BY OtherFirst DEF ReplaceOps, Of, Tidying
    <2>4. \A op : op \in ReplaceOps(Slot) <=> \E s \in Slot : op \in sets[s]
        BY OfSlots
    <2>5. seq = [i \in 1 .. n |-> seq[i]]
        OBVIOUS
    <2> HIDE DEF seq, sets, n
    <2>6. Arranged(n, seq, Slot, up, sets, ReplaceOps(Slot))
        <3>1. \A i \in 1 .. n : up[i] \in Slot /\ Block(seq[i], sets[up[i]])
            BY <1>2, <2>2
        <3>2. n \in Nat /\ \A i, j \in 1 .. n : i < j => up[i] # up[j]
            BY <1>2
        <3>3. \A s \in Slot : \E i \in 1 .. n : up[i] = s
            BY <1>2
        <3> QED
            BY <2>3, <2>4, <2>5, <3>1, <3>2, <3>3 DEF Arranged
    <2>7. Block(Direct!FlattenSeq(seq), ReplaceOps(Slot))
        BY <2>6, EachBlock
    <2> QED
        BY <2>1, <2>7
<1>6. Block(Direct!PerSlot(0, Direct!Drops), DropOps(Slot))
    <2> DEFINE seq == [i \in 1 .. n |-> Direct!Drops(0 + i - 1)]
               sets == [s \in Slot |-> DropOps({s})]
    <2>1. Direct!PerSlot(0, Direct!Drops) = Direct!FlattenSeq(seq)
        BY DEF Direct!PerSlot
    <2>2. \A i \in 1 .. n : Block(seq[i], sets[up[i]])
        <3>1. \A i \in 1 .. n : seq[i] = Direct!Drops(up[i])
            BY <1>3
        <3>2. \A s \in Slot : Block(Direct!Drops(s), sets[s])
            BY DropsBlock
        <3> HIDE DEF seq, sets, n
        <3> QED
            BY <1>2, <3>1, <3>2
    <2>3. \A s, t \in Slot : s # t => \A x \in sets[s], y \in sets[t] : Precedes(x, y)
        BY TidyFirst, DropsTidy
    <2>4. \A op : op \in DropOps(Slot) <=> \E s \in Slot : op \in sets[s]
        BY OfSlots
    <2>5. seq = [i \in 1 .. n |-> seq[i]]
        OBVIOUS
    <2> HIDE DEF seq, sets, n
    <2>6. Arranged(n, seq, Slot, up, sets, DropOps(Slot))
        <3>1. \A i \in 1 .. n : up[i] \in Slot /\ Block(seq[i], sets[up[i]])
            BY <1>2, <2>2
        <3>2. n \in Nat /\ \A i, j \in 1 .. n : i < j => up[i] # up[j]
            BY <1>2
        <3>3. \A s \in Slot : \E i \in 1 .. n : up[i] = s
            BY <1>2
        <3> QED
            BY <2>3, <2>4, <2>5, <3>1, <3>2, <3>3 DEF Arranged
    <2>7. Block(Direct!FlattenSeq(seq), DropOps(Slot))
        BY <2>6, EachBlock
    <2> QED
        BY <2>1, <2>7
<1>7. Block(Direct!FlattenSeq(TakesBack(started)), TakeBackOps(started, Slot))
    <2> DEFINE seq == TakesBack(started)
               sets == [s \in Slot |-> TakeBackOps(started, {s})]
    <2>1. Direct!FlattenSeq(TakesBack(started)) = Direct!FlattenSeq(seq)
        OBVIOUS
    <2>2. \A i \in 1 .. n : Block(seq[i], sets[down[i]])
        <3>1. \A i \in 1 .. n : seq[i] = Direct!RestoresMutated(started, down[i])
            BY <1>3 DEF TakesBack
        <3>2. \A s \in Slot : Block(Direct!RestoresMutated(started, s), sets[s])
            BY TakesBackBlock
        <3> HIDE DEF seq, sets, n
        <3> QED
            BY <1>2, <3>1, <3>2
    <2>3. \A s, t \in Slot : s # t => \A x \in sets[s], y \in sets[t] : Precedes(x, y)
        BY OtherFirst DEF TakeBackOps, Of, Tidying
    <2>4. \A op : op \in TakeBackOps(started, Slot) <=> \E s \in Slot : op \in sets[s]
        BY DEF TakeBackOps, Of
    <2>5. seq = [i \in 1 .. n |-> seq[i]]
        BY DEF TakesBack
    <2> HIDE DEF seq, sets, n
    <2>6. Arranged(n, seq, Slot, down, sets, TakeBackOps(started, Slot))
        <3>1. \A i \in 1 .. n : down[i] \in Slot /\ Block(seq[i], sets[down[i]])
            BY <1>2, <2>2
        <3>2. n \in Nat /\ \A i, j \in 1 .. n : i < j => down[i] # down[j]
            BY <1>2
        <3>3. \A s \in Slot : \E i \in 1 .. n : down[i] = s
            BY <1>2
        <3> QED
            BY <2>3, <2>4, <2>5, <3>1, <3>2, <3>3 DEF Arranged
    <2>7. Block(Direct!FlattenSeq(seq), TakeBackOps(started, Slot))
        BY <2>6, EachBlock
    <2> QED
        BY <2>1, <2>7
<1> QED
    BY <1>4, <1>5, <1>6, <1>7

Reverting == Undoing \cup {"all-restored"}
Dropping == {"drop-claim", "drop-prepared"}
Zero(name) == Op(name, 0)
InstallOps ==
    Of({"claim"}, {t \in Slot : Changed(t)}) \cup {Zero("all-claimed")} \cup ReplaceOps(Slot)
    \cup {Zero("all-published")} \cup DropOps(Slot)

LEMMA ZeroOps ==
    /\ \A name \in Names : Zero(name) \in Ops /\ Zero(name).do = name
    /\ \A name \in {"all-claimed", "all-published", "all-restored", "preflight"} : \A set :
            name \in Names /\ Block(<<Zero(name)>>, {Zero(name)}) /\ Suits(Zero(name))
<1>1. 0 \in Slot
    BY Slots DEF Receipt
<1>2. \A name \in Names : Zero(name) \in Ops /\ Zero(name).do = name
    BY <1>1, OpsAre, OpFields DEF Zero
<1>3. \A name \in {"all-claimed", "all-published", "all-restored", "preflight"} : name \in Names
    BY DEF Names
<1>4. \A name \in {"all-claimed", "all-published", "all-restored", "preflight"} : Suits(Zero(name))
    BY <1>2, <1>3 DEF Suits
<1> QED
    BY <1>2, <1>3, <1>4, One

LEMMA DropOpsAre == \A x \in DropOps(Slot) : x.do \in Dropping /\ x.do \in Tidying /\ x.do # "erase" /\ Suits(x)
BY TidySuits DEF DropOps, Of, Dropping, Tidying

LEMMA InstallBlock == Block(Direct!Script, InstallOps)
<1> DEFINE A1 == Of({"claim"}, {t \in Slot : Changed(t)})
           A2 == A1 \cup {Zero("all-claimed")}
           A3 == A2 \cup ReplaceOps(Slot)
           A4 == A3 \cup {Zero("all-published")}
           a1 == Direct!PerSlot(0, Direct!Claims)
           a2 == a1 \o <<Zero("all-claimed")>>
           a3 == a2 \o Direct!PerSlot(0, Direct!Replaces)
           a4 == a3 \o <<Zero("all-published")>>
<1> DEFINE Free == Names \ (Tidying \cup {"unlink", "publish", "return"})
<1>1. Block(a1, A1) /\ \A x \in A1 : x.do \in Free
    <2>1. Block(a1, A1)
        BY SlotBlocks
    <2>2. "claim" \in Free
        BY DEF Names, Tidying
    <2> QED
        BY <2>1, <2>2 DEF Of
<1> HIDE DEF a1, A1
<1>2. Block(a2, A2) /\ \A x \in A2 : x.do \in Free
    <2> DEFINE o == <<Zero("all-claimed")>>
    <2>1. Block(o, {Zero("all-claimed")}) /\ Zero("all-claimed").do = "all-claimed"
        BY ZeroOps
    <2>2. "all-claimed" \in Free
        BY DEF Names, Tidying
    <2>3. \A x \in A1, y \in {Zero("all-claimed")} : Precedes(x, y)
        BY <1>1, FreeFirst
    <2> HIDE DEF o
    <2>4. Block(a1 \o o, A1 \cup {Zero("all-claimed")})
        BY <1>1, <2>1, <2>3, Join
    <2> QED
        BY <1>1, <2>1, <2>2, <2>4 DEF o
<1> HIDE DEF a2, A2
<1>3. Block(a3, A3) /\ \A x \in A3 : x.do \notin Tidying
    <2>1. \A x \in A2, y \in ReplaceOps(Slot) : Precedes(x, y)
        BY <1>2, FreeFirst
    <2>2. Block(a3, A3)
        BY <1>2, <2>1, SlotBlocks, Join
    <2>3. \A x \in ReplaceOps(Slot) : x.do \notin Tidying
        BY OfIs DEF Tidying
    <2> QED
        BY <1>2, <2>2, <2>3
<1> HIDE DEF a3, A3
<1>4. Block(a4, A4) /\ \A x \in A4 : x.do \notin Tidying
    <2> DEFINE o == <<Zero("all-published")>>
    <2>1. Block(o, {Zero("all-published")}) /\ Zero("all-published").do = "all-published"
        BY ZeroOps
    <2>2. "all-published" \notin Tidying
        BY DEF Tidying
    <2>3. \A x \in A3, y \in {Zero("all-published")} : Precedes(x, y)
        BY <1>3, <2>1, LaterFirst
    <2> HIDE DEF o
    <2>4. Block(a3 \o o, A3 \cup {Zero("all-published")})
        BY <1>3, <2>1, <2>3, Join
    <2> QED
        BY <1>3, <2>1, <2>2, <2>4 DEF o
<1> HIDE DEF a4, A4
<1>5. Block(a4 \o Direct!PerSlot(0, Direct!Drops), A4 \cup DropOps(Slot))
    <2>1. \A x \in A4, y \in DropOps(Slot) : Precedes(x, y)
        BY <1>4, DropOpsAre, LaterFirst DEF Dropping
    <2> QED
        BY <1>4, <2>1, SlotBlocks, Join
<1>6. Direct!Script = a4 \o Direct!PerSlot(0, Direct!Drops)
    BY DirectOp DEF Direct!Script, Direct!Cleanup, a1, a2, a3, a4, Zero
<1>7. InstallOps = A4 \cup DropOps(Slot)
    BY DEF InstallOps, A1, A2, A3, A4
<1> QED
    BY <1>5, <1>6, <1>7

LEMMA InstallHas ==
    /\ Line(Direct!Script) /\ Waits(Direct!Script, Zero("all-claimed"))
    /\ \A op : Waits(Direct!Script, op) => op.do \notin Reverting \cup {"erase"}
    /\ \A s \in Slot : /\ Waits(Direct!Script, Op("unlink", s)) <=> Changed(s) /\ Had(s)
                       /\ Waits(Direct!Script, Op("publish", s)) <=> Gets(s)
<1>1. ASSUME NEW x \in InstallOps PROVE Suits(x) /\ x.do # "base" /\ x.do \notin Reverting \cup {"erase"}
    <2>1. CASE x \in Of({"claim"}, {t \in Slot : Changed(t)})
        BY <2>1 DEF Of, Suits, Reverting, Undoing
    <2>2. CASE x \in ReplaceOps(Slot)
        BY <2>2, OfIs DEF Reverting, Undoing
    <2>3. CASE x \in DropOps(Slot)
        BY <2>3, DropOpsAre DEF Reverting, Undoing, Dropping
    <2>4. CASE x = Zero("all-claimed") \/ x = Zero("all-published")
        <3>1. x.do = "all-claimed" \/ x.do = "all-published"
            BY <2>4, ZeroOps
        <3> QED
            BY <2>4, <3>1, ZeroOps DEF Reverting, Undoing
    <2> QED
        BY <2>1, <2>2, <2>3, <2>4 DEF InstallOps
<1>2. Line(Direct!Script)
    BY <1>1, InstallBlock, NoBase
<1>3. ASSUME NEW s \in Slot
      PROVE  /\ Op("unlink", s) \in InstallOps <=> Changed(s) /\ Had(s)
             /\ Op("publish", s) \in InstallOps <=> Gets(s)
    <2>1. \A name \in {"unlink", "publish"} :
            Op(name, s).do = name /\ Op(name, s) \notin DropOps(Slot) /\ Op(name, s) \notin Of({"claim"}, {t \in Slot : Changed(t)})
        <3>1. \A name \in {"unlink", "publish"} : Op(name, s).do = name /\ name \notin Tidying /\ name # "claim"
            BY OpFields DEF Tidying
        <3>2. \A x \in Of({"claim"}, {t \in Slot : Changed(t)}) : x.do = "claim"
            BY DEF Of
        <3> QED
            BY <3>1, <3>2, DropOpsAre
    <2>2. /\ Op("unlink", s) \in ReplaceOps(Slot) <=> Changed(s) /\ Had(s)
          /\ Op("publish", s) \in ReplaceOps(Slot) <=> Gets(s)
        <3>1. "unlink" \in Names /\ "publish" \in Names
            BY DEF Names
        <3> QED
            BY <3>1, OfIs DEF ReplaceOps
    <2>3. \A name \in {"unlink", "publish"} : Op(name, s) # Zero("all-claimed") /\ Op(name, s) # Zero("all-published")
        BY SameOp DEF Zero
    <2> QED
        BY <2>1, <2>2, <2>3 DEF InstallOps
<1>4. \A op : Waits(Direct!Script, op) <=> op \in InstallOps
    BY InstallBlock DEF Block
<1>5. Zero("all-claimed") \in InstallOps
    BY DEF InstallOps
<1> QED
    BY <1>1, <1>2, <1>3, <1>4, <1>5

\* The script of a rollback.
TakeBack(started) ==
    (IF started = {} THEN <<>>
     ELSE <<Zero("preflight")>> \o Direct!FlattenSeq(TakesBack(started)) \o <<Zero("all-restored")>>)
    \o Direct!Cleanup

LEMMA RollsBack ==
    ASSUME NEW started, started \subseteq {s \in Slot : Changed(s)}, NEW ops, ops = TakeBack(started)
    PROVE  /\ Line(ops) /\ \A op : Waits(ops, op) => op.do \in Reverting \cup Tidying /\ op.do # "erase"
           /\ \A s \in Slot : /\ Waits(ops, Op("withdraw", s)) <=> s \in started /\ Gets(s)
                              /\ Waits(ops, Op("return", s)) <=> s \in started /\ Had(s)
           /\ IF started = {} THEN Tidy(ops) ELSE ops # <<>> /\ Head(ops).do = "preflight"
<1> DEFINE B == IF started = {} THEN {}
                ELSE {Zero("preflight")} \cup TakeBackOps(started, Slot) \cup {Zero("all-restored")}
           b == IF started = {} THEN <<>>
                ELSE <<Zero("preflight")>> \o Direct!FlattenSeq(TakesBack(started)) \o <<Zero("all-restored")>>
           f == Direct!FlattenSeq(TakesBack(started))
           T == TakeBackOps(started, Slot)
<1>1. \A x \in T : x.do \in {"withdraw", "return"} /\ Suits(x)
    BY PlanFacts DEF TakeBackOps, Of, Suits
<1>2. Block(f, T)
    BY SlotBlocks
<1>3. Zero("preflight").do = "preflight" /\ Zero("all-restored").do = "all-restored"
      /\ Suits(Zero("preflight")) /\ Suits(Zero("all-restored"))
    BY ZeroOps
<1> DEFINE p == <<Zero("preflight")>>
           r == <<Zero("all-restored")>>
<1>4. Block(p, {Zero("preflight")}) /\ Block(r, {Zero("all-restored")}) /\ p # <<>> /\ p[1] = Zero("preflight")
    BY ZeroOps
<1> HIDE DEF p, r, f, T
<1>5. Block(p \o f, {Zero("preflight")} \cup T)
    <2>1. \A x \in {Zero("preflight")}, y \in T : Precedes(x, y)
        <3>1. "preflight" \in Names \ (Tidying \cup {"unlink", "publish", "return"})
            BY DEF Names, Tidying
        <3> QED
            BY <1>3, <3>1, FreeFirst
    <2> QED
        BY <1>2, <1>4, <2>1, Join
<1>6. Block((p \o f) \o r, ({Zero("preflight")} \cup T) \cup {Zero("all-restored")})
    <2>1. \A x \in {Zero("preflight")} \cup T, y \in {Zero("all-restored")} : Precedes(x, y)
        <3>1. \A x \in {Zero("preflight")} \cup T : x.do \notin Tidying
            BY <1>1, <1>3 DEF Tidying
        <3> QED
            BY <1>3, <3>1, LaterFirst
    <2> QED
        BY <1>4, <1>5, <2>1, Join
<1>7. Block(b, B) /\ \A x \in B : x.do \in Reverting /\ Suits(x)
    <2>1. CASE started = {}
        BY <2>1, Empty
    <2>2. CASE started # {}
        <3>1. Block(b, B)
            BY <1>6, <2>2 DEF p, f, r, T
        <3>2. \A x \in B : x \in T \/ x = Zero("preflight") \/ x = Zero("all-restored")
            BY DEF T
        <3> QED
            BY <1>1, <1>3, <3>1, <3>2 DEF Reverting, Undoing
    <2> QED
        BY <2>1, <2>2
<1>8. started # {} => b = (p \o f) \o r
    BY DEF p, f, r
<1>9. \A op : op \in B <=> started # {} /\ (op \in T \/ op = Zero("preflight") \/ op = Zero("all-restored"))
    BY DEF T
<1>10. started = {} => B = {}
    OBVIOUS
<1> HIDE DEF b, B
<1>11. Block(b \o Direct!Cleanup, B \cup DropOps(Slot)) /\ ops = b \o Direct!Cleanup
    <2>1. \A x \in B, y \in DropOps(Slot) : Precedes(x, y)
        <3>1. \A x \in B : x.do \notin Tidying
            BY <1>7 DEF Reverting, Undoing, Tidying
        <3> QED
            BY <3>1, DropOpsAre, LaterFirst DEF Dropping
    <2>2. Block(Direct!Cleanup, DropOps(Slot))
        BY SlotBlocks DEF Direct!Cleanup
    <2> QED
        BY <1>7, <2>1, <2>2, Join DEF TakeBack, b
<1>12. \A op : Waits(ops, op) <=> op \in B \cup DropOps(Slot)
    BY <1>11 DEF Block
<1>13. \A x \in B \cup DropOps(Slot) : Suits(x) /\ x.do # "base" /\ x.do \in Reverting \cup Tidying /\ x.do # "erase"
    BY <1>7, DropOpsAre DEF Reverting, Undoing, Dropping
<1>14. Line(ops)
    BY <1>11, <1>13, NoBase
<1>15. ASSUME NEW s \in Slot
       PROVE  /\ Op("withdraw", s) \in B \cup DropOps(Slot) <=> s \in started /\ Gets(s)
              /\ Op("return", s) \in B \cup DropOps(Slot) <=> s \in started /\ Had(s)
    <2>1. Op("withdraw", s) \notin DropOps(Slot) /\ Op("return", s) \notin DropOps(Slot)
        BY DropOpsAre, OpFields DEF Dropping
    <2>2. /\ Op("withdraw", s) \in T <=> s \in started /\ Gets(s)
          /\ Op("return", s) \in T <=> s \in started /\ Had(s)
        <3>1. "withdraw" \in Names /\ "return" \in Names
            BY DEF Names
        <3> QED
            BY <3>1, OfIs DEF TakeBackOps, T
    <2>3. \A name \in {"withdraw", "return"} : Op(name, s) # Zero("preflight") /\ Op(name, s) # Zero("all-restored")
        BY SameOp DEF Zero
    <2> QED
        BY <1>9, <2>1, <2>2, <2>3
<1>16. started = {} => Tidy(ops)
    BY <1>10, <1>12, DropOpsAre DEF Tidy
<1>17. started # {} => ops # <<>> /\ Head(ops).do = "preflight"
    <2> SUFFICES ASSUME started # {} PROVE ops # <<>> /\ Head(ops).do = "preflight"
        OBVIOUS
    <2>1. p \in Seq(Ops) /\ f \in Seq(Ops) /\ r \in Seq(Ops) /\ b \in Seq(Ops) /\ Direct!Cleanup \in Seq(Ops)
        BY <1>2, <1>4, <1>7, SlotBlocks DEF Block, Direct!Cleanup
    <2> DEFINE pf == p \o f
    <2>2. pf \in Seq(Ops) /\ pf # <<>> /\ pf[1] = p[1]
        BY <1>4, <2>1, ConcatHead
    <2> HIDE DEF pf
    <2>3. b # <<>> /\ b[1] = pf[1]
        <3>1. pf \o r # <<>> /\ (pf \o r)[1] = pf[1]
            BY <2>1, <2>2, ConcatHead
        <3> QED
            BY <1>8, <3>1 DEF pf
    <2>4. ops # <<>> /\ ops[1] = b[1] /\ ops \in Seq(Ops)
        BY <1>11, <2>1, <2>3, ConcatHead
    <2>5. Head(ops) = ops[1]
        BY <2>4, HeadTailProperties
    <2> QED
        BY <1>3, <1>4, <2>2, <2>3, <2>4, <2>5
<1> QED
    BY <1>12, <1>13, <1>14, <1>15, <1>16, <1>17

-----------------------------------------------------------------------------
(* What an installation has left to do, and what it has left reachable.    *)

\* Of a file that does not count as changed the first operation is still to be done.
Unmutated(ops) == \A s \in Slot \ mutated :
    Changed(s) => IF Had(s) THEN Waits(ops, Op("unlink", s)) ELSE Waits(ops, Op("publish", s))
DirectShape ==
    /\ Named /\ Line(todo)
    /\ mode \in {"new", "commit", "undo", "idle"}
    /\ mode \in {"new", "idle"} <=> todo = <<>>
    /\ \A op : Waits(todo, op) => op.do # "erase"
    /\ mode = "commit" => \A op : Waits(todo, op) => op.do \notin Reverting
    /\ mode = "undo" => \A op : Waits(todo, op) => op.do \in Reverting \cup Tidying
    /\ \A s \in Slot \ edited : ~Changed(s) => public[s] = Before(s)
    /\ mutated \subseteq {s \in Slot : Changed(s)}
DirectStage ==
    /\ mode = "new" => AllBefore /\ mutated = {}
    /\ mode = "commit" => Forth(todo) /\ Unmutated(todo)
    /\ mode = "undo" => Back(todo)
Answered ==
    /\ result \in {"done", "failed"} => mode = "idle"
    /\ result = "done" => AllAfter
    /\ result = "failed" => AllBefore
\* A roll-back that follows the last link is refused while the new files have no claims.
DirectCover == Over \/ Reach \/ (AllAfter /\ mode = "undo" /\ Head(todo).do = "preflight")
DirectInv == DirectShape /\ DirectStage /\ Answered /\ DirectCover

LEMMA DirectIs ==
    /\ \A s, inode : Direct!Intact(s, inode) <=> Intact(s, inode)
    /\ \A s, inode : Direct!Holds(s, inode) <=> Holds(s, inode)
    /\ \A s : Direct!Before(s) = Before(s) /\ Direct!After(s) = After(s)
    /\ Direct!Slot = Slot
    /\ Direct!AllBefore <=> AllBefore
    /\ Direct!AllAfter <=> AllAfter
<1>1. \A s, inode : Direct!Intact(s, inode) <=> Intact(s, inode)
    BY DEF Direct!Intact, Intact
<1>2. \A s, inode : Direct!Holds(s, inode) <=> Holds(s, inode)
    BY <1>1 DEF Direct!Holds, Holds
<1>3. \A s : Direct!Before(s) = Before(s) /\ Direct!After(s) = After(s)
    BY DEF Direct!Before, Before, Direct!After, After
<1>4. Direct!Slot = Slot
    BY DEF Direct!Slot, Slot
<1>5. (Direct!AllBefore <=> AllBefore) /\ (Direct!AllAfter <=> AllAfter)
    BY <1>3, <1>4 DEF Direct!AllBefore, AllBefore, Direct!AllAfter, AllAfter
<1> QED
    BY <1>1, <1>2, <1>3, <1>4, <1>5

\* A commit whose links are being removed is done; a roll-back has nothing to give back.
LEMMA ScriptIsOver ==
    /\ Forth(todo) /\ Tidy(todo) => AllAfter
    /\ Back(todo) /\ Tidy(todo) => AllBefore
BY ForthIsOver, BackIsOver

LEMMA ScriptIsOverNext ==
    /\ Forth(todo)' /\ Tidy(todo)' => AllAfter'
    /\ Back(todo)' /\ Tidy(todo)' => AllBefore'
BY ScriptIsOver, PTL

\* An old file that is in place is reachable.
LEMMA BeforeReaches == AllBefore => Reach
BY PlanFacts DEF AllBefore, Reach

LEMMA BeforeReachesNext == AllBefore' => Reach'
BY BeforeReaches, PTL

LEMMA DirectShapeOn ==
    ASSUME DirectShape, UNCHANGED <<kind, edited, edits>>, Line(todo'), public' \in [Slot -> Inodes],
           mode' \in {"new", "commit", "undo", "idle"}, mode' \in {"new", "idle"} <=> todo' = <<>>,
           \A op : Waits(todo', op) => op.do # "erase",
           mode' = "commit" => \A op : Waits(todo', op) => op.do \notin Reverting,
           mode' = "undo" => \A op : Waits(todo', op) => op.do \in Reverting \cup Tidying,
           \A s \in Slot : public'[s] = public[s] \/ Changed(s),
           mutated' \subseteq {s \in Slot : Changed(s)}
    PROVE  DirectShape'
<1>1. Named'
    BY DEF DirectShape, Named
<1>2. Line(todo)'
    BY PlansStay DEF Line
<1>3. /\ \A s \in Slot \ edited' : ~Changed(s)' => public'[s] = Before(s)'
      /\ mutated' \subseteq {s \in Slot : Changed(s)'}
    BY PlansStay DEF DirectShape
<1> QED
    BY <1>1, <1>2, <1>3 DEF DirectShape

\* A command runs its next operation, and answers when it was the last one.
LEMMA DirectOn ==
    ASSUME DirectInv, todo # <<>>, todo' = Tail(todo), mode' = IF Len(todo) = 1 THEN "idle" ELSE mode,
           result' = IF Len(todo) = 1 /\ result = "none"
                     THEN IF mode = "commit" THEN "done" ELSE "failed" ELSE result,
           UNCHANGED <<kind, edited, edits>>, public' \in [Slot -> Inodes],
           \A s \in Slot : public'[s] = public[s] \/ Changed(s), mutated' \subseteq {s \in Slot : Changed(s)},
           mode = "commit" => Forth(todo)' /\ Unmutated(todo)',
           mode = "undo" => Back(todo)',
           Over' \/ Reach'
    PROVE  DirectInv'
<1>1. /\ Line(todo) /\ Line(Tail(todo)) /\ mode \in {"commit", "undo"} /\ (Len(todo) = 1 <=> Tail(todo) = <<>>)
      /\ \A op : Waits(Tail(todo), op) => Waits(todo, op)
    BY Onward DEF DirectInv, DirectShape
<1>2. DirectShape'
    <2>1. mode' \in {"new", "commit", "undo", "idle"} /\ (mode' \in {"new", "idle"} <=> todo' = <<>>)
        BY <1>1
    <2>2. /\ \A op : Waits(todo', op) => op.do # "erase"
          /\ mode' = "commit" => \A op : Waits(todo', op) => op.do \notin Reverting
          /\ mode' = "undo" => \A op : Waits(todo', op) => op.do \in Reverting \cup Tidying
        BY <1>1 DEF DirectInv, DirectShape
    <2>3. DirectShape
        BY DEF DirectInv
    <2> QED
        BY <1>1, <2>1, <2>2, <2>3, DirectShapeOn
<1>3. DirectStage'
    BY <1>1 DEF DirectStage
<1>4. Answered'
    <2>1. result \notin {"done", "failed"}
        BY <1>1 DEF DirectInv, Answered
    <2>2. CASE Len(todo) # 1
        BY <2>1, <2>2 DEF Answered
    <2>3. CASE Len(todo) = 1
        <3>1. Tidy(todo)' /\ mode' = "idle"
            BY <1>1, <2>3, NothingWaits DEF Tidy
        <3>2. (mode = "commit" => AllAfter') /\ (mode = "undo" => AllBefore')
            BY <3>1, ScriptIsOverNext
        <3> QED
            BY <1>1, <2>1, <2>3, <3>1, <3>2 DEF Answered
    <2> QED
        BY <2>2, <2>3
<1> QED
    BY <1>2, <1>3, <1>4 DEF DirectInv, DirectCover

LEMMA DirectRunDoes ==
    ASSUME NEW names, Direct!Run(names)
    PROVE  /\ todo # <<>> /\ Head(todo).do \in names /\ Direct!Checked(Head(todo))
           /\ todo' = Tail(todo) /\ mode' = IF Len(todo) = 1 THEN "idle" ELSE mode
           /\ result' = IF Len(todo) = 1 /\ result = "none"
                        THEN IF mode = "commit" THEN "done" ELSE "failed" ELSE result
           /\ UNCHANGED <<kind, spoiled, edited, edits>> /\ Direct!At = Head(todo).slot
BY DEF Direct!Run, Direct!Due, Direct!Proceed, Direct!users, Direct!At, Direct!Answer, Direct!Ending

\* Before the links are removed: what a commit has to do, and what a roll-back has to give back.
LEMMA InDirect ==
    ASSUME DirectInv, todo # <<>>, Head(todo).do \notin Tidying
    PROVE  /\ Head(todo).do \notin Reverting => /\ mode = "commit" /\ Forth(todo) /\ Unmutated(todo)
                                                /\ Reach
           /\ Head(todo).do \in Reverting => mode = "undo" /\ Back(todo)
           /\ Head(todo).do \in Reverting \ {"preflight"} => Reach
<1>1. Waits(todo, Head(todo)) /\ mode \in {"commit", "undo"}
    BY Onward DEF DirectInv, DirectShape
<1>2. ~Over
    BY <1>1 DEF Over, Tidy
<1>3. Head(todo).do \in Reverting <=> mode = "undo"
    BY <1>1 DEF DirectInv, DirectShape
<1> QED
    BY <1>1, <1>2, <1>3 DEF DirectInv, DirectStage, DirectCover

-----------------------------------------------------------------------------
(* The commit of an installation.                                          *)

LEMMA InstallBegin == ASSUME DirectInv, Direct!Begin PROVE DirectInv'
<1>1. /\ mode = "new" /\ mode' = "commit" /\ todo' = Direct!Script
      /\ UNCHANGED <<public, claim, kind, spoiled, edited, edits, mutated, result>>
    BY DEF Direct!Begin, Direct!BeginWith, Direct!users, Direct!outcome
<1>2. AllBefore /\ mutated = {} /\ DirectShape
    BY <1>1 DEF DirectInv, DirectStage
<1>3. /\ Line(todo') /\ Waits(todo', Zero("all-claimed"))
      /\ \A op : Waits(todo', op) => op.do \notin Reverting \cup {"erase"}
      /\ \A s \in Slot : /\ Waits(todo', Op("unlink", s)) <=> Changed(s) /\ Had(s)
                         /\ Waits(todo', Op("publish", s)) <=> Gets(s)
    BY <1>1, InstallHas
<1>4. todo' # <<>>
    BY <1>3, NothingWaits
<1>5. DirectShape'
    BY <1>1, <1>2, <1>3, <1>4, DirectShapeOn DEF DirectShape, Named
<1>6. AllBefore' /\ Reach'
    BY <1>1, <1>2, FilesStay, BeforeReachesNext
<1>7. Forth(todo)'
    <2>1. ASSUME NEW s \in Slot \ edited
          PROVE  public[s] = IF Waits(todo', Op("unlink", s)) THEN Before(s)
                             ELSE IF Waits(todo', Op("publish", s)) THEN "none" ELSE After(s)
        BY <1>2, <1>3, PlanFacts DEF AllBefore
    <2>2. \A s \in Slot : Waits(todo', Op("unlink", s)) /\ Gets(s) => Waits(todo', Op("publish", s))
        BY <1>3
    <2> QED
        BY <1>1, <2>1, <2>2, PlansStay DEF Forth
<1>8. Unmutated(todo)'
    <2>1. \A s \in Slot : Changed(s) => Had(s) \/ Gets(s)
        BY DEF Had, Gets, Changed, Before, After
    <2> QED
        BY <1>1, <1>3, <2>1, PlansStay DEF Unmutated
<1>9. Answered'
    BY <1>1, <1>4 DEF DirectInv, Answered
<1> QED
    BY <1>1, <1>5, <1>6, <1>7, <1>8, <1>9 DEF DirectInv, DirectStage, DirectCover

LEMMA UnmutatedOn ==
    ASSUME Line(todo), todo # <<>>, todo' = Tail(todo), Unmutated(todo), UNCHANGED kind, mutated \subseteq mutated',
           Head(todo).do \in {"unlink", "publish"} => Head(todo).slot \in mutated'
    PROVE  Unmutated(todo)'
<1>1. \A name, s : Waits(todo, Op(name, s)) <=> (name = Head(todo).do /\ s = Head(todo).slot) \/ Waits(todo', Op(name, s))
    BY OnwardOps
<1> QED
    BY <1>1, PlansStay DEF Unmutated

LEMMA BackOn ==
    ASSUME Line(todo), todo # <<>>, Head(todo).do \notin {"withdraw", "return"}, todo' = Tail(todo), Back(todo),
           UNCHANGED <<public, kind, edited>>
    PROVE  Back(todo)'
<1>1. \A s : /\ Waits(todo, Op("withdraw", s)) <=> Waits(todo', Op("withdraw", s))
             /\ Waits(todo, Op("return", s)) <=> Waits(todo', Op("return", s))
    BY OnwardOps
<1> QED
    BY <1>1, PlansStay DEF Back

\* An operation that changes no public file.
LEMMA DirectCalm ==
    ASSUME DirectInv, todo # <<>>, Head(todo).do \notin {"unlink", "publish", "withdraw", "return"},
           todo' = Tail(todo), mode' = IF Len(todo) = 1 THEN "idle" ELSE mode,
           result' = IF Len(todo) = 1 /\ result = "none"
                     THEN IF mode = "commit" THEN "done" ELSE "failed" ELSE result,
           UNCHANGED <<kind, edited, edits, public, mutated>>,
           Over' \/ Reach'
    PROVE  DirectInv'
<1>1. /\ Line(todo) /\ public \in [Slot -> Inodes] /\ mutated \subseteq {s \in Slot : Changed(s)}
      /\ mode = "commit" => Forth(todo) /\ Unmutated(todo)
      /\ mode = "undo" => Back(todo)
    BY DEF DirectInv, DirectShape, DirectStage, Named
<1>2. mode = "commit" => Forth(todo)'
    BY <1>1, ForthOn
<1>3. mode = "commit" => Unmutated(todo)'
    BY <1>1, UnmutatedOn
<1>4. mode = "undo" => Back(todo)'
    BY <1>1, BackOn
<1> QED
    BY <1>1, <1>2, <1>3, <1>4, DirectOn

LEMMA InstallClaim == ASSUME DirectInv, Direct!Claim PROVE DirectInv'
<1>1. /\ todo # <<>> /\ Head(todo).do \in {"claim"}
      /\ todo' = Tail(todo) /\ mode' = IF Len(todo) = 1 THEN "idle" ELSE mode
      /\ result' = IF Len(todo) = 1 /\ result = "none"
                   THEN IF mode = "commit" THEN "done" ELSE "failed" ELSE result
      /\ UNCHANGED <<kind, edited, edits, public, mutated>> /\ claim \subseteq claim'
    <2>1. Direct!Run({"claim"}) /\ UNCHANGED <<public, mutated>> /\ claim \subseteq claim'
        BY DEF Direct!Claim, Direct!TakeClaim
    <2> QED
        BY <2>1, DirectRunDoes
<1>2. Head(todo).do \notin Tidying \cup Reverting \cup {"unlink", "publish", "withdraw", "return"}
    BY <1>1 DEF Tidying, Reverting, Undoing
<1>3. Reach
    BY <1>1, <1>2, InDirect
<1>4. Reach'
    BY <1>1, <1>3, PlansStay DEF Reach
<1> QED
    BY <1>1, <1>2, <1>4, DirectCalm

LEMMA InstallVerify == ASSUME DirectInv, Direct!Verify PROVE DirectInv'
<1>1. /\ todo # <<>> /\ Head(todo).do \in {"all-claimed", "all-published", "preflight", "all-restored"}
      /\ Direct!Checked(Head(todo))
      /\ todo' = Tail(todo) /\ mode' = IF Len(todo) = 1 THEN "idle" ELSE mode
      /\ result' = IF Len(todo) = 1 /\ result = "none"
                   THEN IF mode = "commit" THEN "done" ELSE "failed" ELSE result
      /\ UNCHANGED <<kind, edited, edits, public, claim, mutated>>
    <2>1. /\ Direct!Run({"all-claimed", "all-published", "preflight", "all-restored"})
          /\ UNCHANGED <<public, claim, mutated>>
        BY DEF Direct!Verify, Direct!links
    <2> QED
        BY <2>1, DirectRunDoes
<1>2. Head(todo).do \notin Tidying \cup {"unlink", "publish", "withdraw", "return"}
    BY <1>1 DEF Tidying
<1>3. Reach
    <2>1. CASE Head(todo).do = "preflight"
        <3>1. \A s \in Slot : Direct!Kept(s)
            BY <1>1, <2>1, DirectIs DEF Direct!Checked, Direct!RollbackPossible
        <3> SUFFICES ASSUME NEW s \in Slot \ edited, Had(s) PROVE public[s] = "before" \/ s \in claim
            BY DEF Reach
        <3>2. CASE Changed(s)
            BY <3>1, <3>2, PlansAre DEF Direct!Kept
        <3>3. CASE ~Changed(s)
            BY <3>3, PlanFacts DEF DirectInv, DirectShape
        <3> QED
            BY <3>2, <3>3
    <2>2. CASE Head(todo).do # "preflight"
        BY <1>1, <1>2, <2>2, InDirect
    <2> QED
        BY <2>1, <2>2
<1>4. Reach'
    BY <1>1, <1>3, PlansStay DEF Reach
<1> QED
    BY <1>1, <1>2, <1>4, DirectCalm

LEMMA InstallUnlink == ASSUME DirectInv, Direct!UnlinkPublic PROVE DirectInv'
<1> DEFINE s == Head(todo).slot
<1>1. /\ todo # <<>> /\ Head(todo).do = "unlink" /\ Direct!Checked(Head(todo))
      /\ todo' = Tail(todo) /\ mode' = IF Len(todo) = 1 THEN "idle" ELSE mode
      /\ result' = IF Len(todo) = 1 /\ result = "none"
                   THEN IF mode = "commit" THEN "done" ELSE "failed" ELSE result
      /\ UNCHANGED <<kind, edited, edits, claim>>
      /\ mutated' = mutated \cup {s} /\ public' = [public EXCEPT ![s] = "none"]
    <2>1. /\ Direct!Run({"unlink"}) /\ mutated' = mutated \cup {Direct!At} /\ UNCHANGED claim
          /\ public' = [public EXCEPT ![Direct!At] = "none"]
        BY DEF Direct!UnlinkPublic, Direct!Unlink
    <2>2. /\ todo # <<>> /\ Head(todo).do \in {"unlink"} /\ Direct!Checked(Head(todo))
          /\ todo' = Tail(todo) /\ mode' = IF Len(todo) = 1 THEN "idle" ELSE mode
          /\ result' = IF Len(todo) = 1 /\ result = "none"
                       THEN IF mode = "commit" THEN "done" ELSE "failed" ELSE result
          /\ UNCHANGED <<kind, edited, edits>> /\ Direct!At = s
        BY <2>1, DirectRunDoes
    <2> QED
        BY <2>1, <2>2
<1>2. Head(todo).do \notin Tidying \cup Reverting
    BY <1>1 DEF Tidying, Reverting, Undoing
<1>3. /\ Line(todo) /\ s \in Slot /\ Changed(s) /\ Had(s) /\ Forth(todo) /\ Unmutated(todo) /\ Reach
      /\ mode = "commit" /\ public \in [Slot -> Inodes]
    BY <1>1, <1>2, InDirect, Onward DEF DirectInv, DirectShape, Suits, Named
<1>4. /\ public' \in [Slot -> Inodes] /\ public'[s] = "none"
      /\ \A t \in Slot : t # s => public'[t] = public[t]
    BY <1>1, <1>3 DEF Inodes
<1>5. s \in claim
    BY <1>1, <1>3, PlansAre DEF Direct!Checked, Direct!Kept
<1>6. /\ \A name, t : Waits(todo, Op(name, t)) <=> (name = "unlink" /\ t = s) \/ Waits(todo', Op(name, t))
      /\ \A name \in {"claim", "record", "unlink"} : ~Waits(todo', Op(name, s))
    BY <1>1, <1>3, OnwardOps, SpentIs
<1>7. Forth(todo)'
    <2>1. ASSUME NEW t \in Slot \ edited
          PROVE  public'[t] = IF Waits(todo', Op("unlink", t)) THEN Before(t)
                              ELSE IF Waits(todo', Op("publish", t)) THEN "none" ELSE After(t)
        <3>1. CASE t = s
            <4>1. ~Waits(todo', Op("unlink", s))
                BY <1>6
            <4>2. CASE Gets(s)
                BY <1>3, <1>4, <1>6, <3>1, <4>1, <4>2 DEF Forth
            <4>3. CASE ~Gets(s)
                BY <1>3, <1>4, <3>1, <4>1, <4>3, PlanFacts
            <4> QED
                BY <4>2, <4>3
        <3>2. CASE t # s
            BY <1>3, <1>4, <1>6, <3>2 DEF Forth
        <3> QED
            BY <3>1, <3>2
    <2>2. \A t \in Slot : Waits(todo', Op("unlink", t)) /\ Gets(t) => Waits(todo', Op("publish", t))
        BY <1>3, <1>6 DEF Forth
    <2> QED
        BY <1>1, <2>1, <2>2, PlansStay DEF Forth
<1>8. Unmutated(todo)'
    BY <1>1, <1>3, UnmutatedOn
<1>9. Reach'
    BY <1>1, <1>3, <1>4, <1>5, PlansStay DEF Reach
<1>10. /\ \A t \in Slot : public'[t] = public[t] \/ Changed(t)
       /\ mutated' \subseteq {t \in Slot : Changed(t)}
    BY <1>1, <1>3, <1>4 DEF DirectInv, DirectShape
<1> QED
    BY <1>1, <1>3, <1>4, <1>7, <1>8, <1>9, <1>10, DirectOn

LEMMA InstallPublish == ASSUME DirectInv, Direct!PublishPrepared PROVE DirectInv'
<1> DEFINE s == Head(todo).slot
<1>1. /\ todo # <<>> /\ Head(todo).do = "publish" /\ Direct!Checked(Head(todo))
      /\ todo' = Tail(todo) /\ mode' = IF Len(todo) = 1 THEN "idle" ELSE mode
      /\ result' = IF Len(todo) = 1 /\ result = "none"
                   THEN IF mode = "commit" THEN "done" ELSE "failed" ELSE result
      /\ UNCHANGED <<kind, edited, edits, claim>>
      /\ mutated' = mutated \cup {s} /\ public' = [public EXCEPT ![s] = "after"]
    <2>1. /\ Direct!Run({"publish"}) /\ mutated' = mutated \cup {Direct!At} /\ UNCHANGED claim
          /\ public' = [public EXCEPT ![Direct!At] = "after"]
        BY DEF Direct!PublishPrepared, Direct!Link
    <2>2. /\ todo # <<>> /\ Head(todo).do \in {"publish"} /\ Direct!Checked(Head(todo))
          /\ todo' = Tail(todo) /\ mode' = IF Len(todo) = 1 THEN "idle" ELSE mode
          /\ result' = IF Len(todo) = 1 /\ result = "none"
                       THEN IF mode = "commit" THEN "done" ELSE "failed" ELSE result
          /\ UNCHANGED <<kind, edited, edits>> /\ Direct!At = s
        BY <2>1, DirectRunDoes
    <2> QED
        BY <2>1, <2>2
<1>2. Head(todo).do \notin Tidying \cup Reverting
    BY <1>1 DEF Tidying, Reverting, Undoing
<1>3. /\ Line(todo) /\ s \in Slot /\ Changed(s) /\ Gets(s) /\ After(s) = "after" /\ Forth(todo)
      /\ Unmutated(todo) /\ Reach /\ mode = "commit" /\ public \in [Slot -> Inodes]
    BY <1>1, <1>2, InDirect, Onward, PlanFacts DEF DirectInv, DirectShape, Suits, Named
<1>4. /\ public' \in [Slot -> Inodes] /\ public'[s] = "after"
      /\ \A t \in Slot : t # s => public'[t] = public[t]
    BY <1>1, <1>3 DEF Inodes
<1>5. public[s] = "none"
    BY <1>1, <1>3, DirectIs DEF Direct!Checked, Direct!ReadSet
<1>6. /\ \A name, t : Waits(todo, Op(name, t)) <=> (name = "publish" /\ t = s) \/ Waits(todo', Op(name, t))
      /\ \A name \in {"claim", "record", "unlink", "publish"} : ~Waits(todo', Op(name, s))
    BY <1>1, <1>3, OnwardOps, SpentIs
<1>7. Forth(todo)'
    <2>1. ASSUME NEW t \in Slot \ edited
          PROVE  public'[t] = IF Waits(todo', Op("unlink", t)) THEN Before(t)
                              ELSE IF Waits(todo', Op("publish", t)) THEN "none" ELSE After(t)
        <3>1. CASE t = s
            BY <1>3, <1>4, <1>6, <3>1
        <3>2. CASE t # s
            BY <1>3, <1>4, <1>6, <3>2 DEF Forth
        <3> QED
            BY <3>1, <3>2
    <2>2. \A t \in Slot : Waits(todo', Op("unlink", t)) /\ Gets(t) => Waits(todo', Op("publish", t))
        BY <1>3, <1>6 DEF Forth
    <2> QED
        BY <1>1, <2>1, <2>2, PlansStay DEF Forth
<1>8. Unmutated(todo)'
    BY <1>1, <1>3, UnmutatedOn
<1>9. Reach'
    <2>1. s \in Slot \ edited /\ Had(s) => s \in claim
        BY <1>3, <1>5 DEF Reach
    <2> QED
        BY <1>1, <1>3, <1>4, <2>1, PlansStay DEF Reach
<1>10. /\ \A t \in Slot : public'[t] = public[t] \/ Changed(t)
       /\ mutated' \subseteq {t \in Slot : Changed(t)}
    BY <1>1, <1>3, <1>4 DEF DirectInv, DirectShape
<1> QED
    BY <1>1, <1>3, <1>4, <1>7, <1>8, <1>9, <1>10, DirectOn

-----------------------------------------------------------------------------
(* The roll-back of an installation.                                       *)

LEMMA InstallWithdraw == ASSUME DirectInv, Direct!Withdraw PROVE DirectInv'
<1> DEFINE s == Head(todo).slot
<1>1. /\ todo # <<>> /\ Head(todo).do = "withdraw" /\ Direct!Checked(Head(todo))
      /\ todo' = Tail(todo) /\ mode' = IF Len(todo) = 1 THEN "idle" ELSE mode
      /\ result' = IF Len(todo) = 1 /\ result = "none"
                   THEN IF mode = "commit" THEN "done" ELSE "failed" ELSE result
      /\ UNCHANGED <<kind, edited, edits, claim, mutated>>
      /\ public' = [public EXCEPT ![s] = "none"]
    <2>1. /\ Direct!Run({"withdraw"}) /\ UNCHANGED <<claim, mutated>>
          /\ public' = [public EXCEPT ![Direct!At] = "none"]
        BY DEF Direct!Withdraw, Direct!Unlink
    <2>2. /\ todo # <<>> /\ Head(todo).do \in {"withdraw"} /\ Direct!Checked(Head(todo))
          /\ todo' = Tail(todo) /\ mode' = IF Len(todo) = 1 THEN "idle" ELSE mode
          /\ result' = IF Len(todo) = 1 /\ result = "none"
                       THEN IF mode = "commit" THEN "done" ELSE "failed" ELSE result
          /\ UNCHANGED <<kind, edited, edits>> /\ Direct!At = s
        BY <2>1, DirectRunDoes
    <2> QED
        BY <2>1, <2>2
<1>2. Head(todo).do \in Reverting \ {"preflight"} /\ Head(todo).do \notin Tidying
    BY <1>1 DEF Tidying, Reverting, Undoing
<1>3. /\ Line(todo) /\ s \in Slot /\ Changed(s) /\ Back(todo) /\ Reach
      /\ mode = "undo" /\ public \in [Slot -> Inodes]
    BY <1>1, <1>2, InDirect, Onward DEF DirectInv, DirectShape, Suits, Named
<1>4. /\ public' \in [Slot -> Inodes] /\ public'[s] = "none"
      /\ \A t \in Slot : t # s => public'[t] = public[t]
    BY <1>1, <1>3 DEF Inodes
<1>5. public[s] \in {"none", "after"}
    BY <1>1, DirectIs DEF Direct!Checked, Holds
<1>6. \A name, t : Waits(todo, Op(name, t)) <=> (name = "withdraw" /\ t = s) \/ Waits(todo', Op(name, t))
    BY <1>1, <1>3, OnwardOps
<1>7. Back(todo)'
    <2>1. ASSUME NEW t \in Slot \ edited
          PROVE  Waits(todo', Op("withdraw", t)) \/ Waits(todo', Op("return", t)) \/ public'[t] = Before(t)
        <3>1. CASE t # s
            BY <1>3, <1>4, <1>6, <3>1 DEF Back
        <3>2. CASE t = s /\ Had(s)
            BY <1>3, <1>6, <3>2 DEF Back
        <3>3. CASE t = s /\ ~Had(s)
            BY <1>4, <3>3, PlanFacts
        <3> QED
            BY <3>1, <3>2, <3>3
    <2>2. \A t \in Slot : Waits(todo', Op("withdraw", t)) /\ Had(t) => Waits(todo', Op("return", t))
        BY <1>3, <1>6 DEF Back
    <2> QED
        BY <1>1, <2>1, <2>2, PlansStay DEF Back
<1>8. Reach'
    <2>1. s \in Slot \ edited /\ Had(s) => s \in claim
        BY <1>3, <1>5 DEF Reach
    <2> QED
        BY <1>1, <1>3, <1>4, <2>1, PlansStay DEF Reach
<1>9. /\ \A t \in Slot : public'[t] = public[t] \/ Changed(t)
      /\ mutated' \subseteq {t \in Slot : Changed(t)}
    BY <1>1, <1>3, <1>4 DEF DirectInv, DirectShape
<1> QED
    BY <1>1, <1>3, <1>4, <1>7, <1>8, <1>9, DirectOn

LEMMA InstallReturn == ASSUME DirectInv, Direct!Return PROVE DirectInv'
<1> DEFINE s == Head(todo).slot
<1>1. /\ todo # <<>> /\ Head(todo).do = "return"
      /\ todo' = Tail(todo) /\ mode' = IF Len(todo) = 1 THEN "idle" ELSE mode
      /\ result' = IF Len(todo) = 1 /\ result = "none"
                   THEN IF mode = "commit" THEN "done" ELSE "failed" ELSE result
      /\ UNCHANGED <<kind, edited, edits, claim, mutated>>
      /\ public' = [public EXCEPT ![s] = "before"]
    <2>1. /\ Direct!Run({"return"}) /\ UNCHANGED <<claim, mutated>>
          /\ public' = [public EXCEPT ![Direct!At] = "before"]
        BY DEF Direct!Return, Direct!Link
    <2>2. /\ todo # <<>> /\ Head(todo).do \in {"return"}
          /\ todo' = Tail(todo) /\ mode' = IF Len(todo) = 1 THEN "idle" ELSE mode
          /\ result' = IF Len(todo) = 1 /\ result = "none"
                       THEN IF mode = "commit" THEN "done" ELSE "failed" ELSE result
          /\ UNCHANGED <<kind, edited, edits>> /\ Direct!At = s
        BY <2>1, DirectRunDoes
    <2> QED
        BY <2>1, <2>2
<1>2. Head(todo).do \in Reverting \ {"preflight"} /\ Head(todo).do \notin Tidying
    BY <1>1 DEF Tidying, Reverting, Undoing
<1>3. /\ Line(todo) /\ s \in Slot /\ Changed(s) /\ Had(s) /\ Back(todo) /\ Reach
      /\ mode = "undo" /\ public \in [Slot -> Inodes]
    BY <1>1, <1>2, InDirect, Onward DEF DirectInv, DirectShape, Suits, Named
<1>4. /\ public' \in [Slot -> Inodes] /\ public'[s] = "before"
      /\ \A t \in Slot : t # s => public'[t] = public[t]
    BY <1>1, <1>3 DEF Inodes
<1>5. \A name, t : Waits(todo, Op(name, t)) <=> (name = "return" /\ t = s) \/ Waits(todo', Op(name, t))
    BY <1>1, <1>3, OnwardOps
<1>6. ~Waits(todo', Op("withdraw", s))
    BY <1>1, <1>3, OnwardOps, SpentIs
<1>7. Back(todo)'
    <2>1. ASSUME NEW t \in Slot \ edited
          PROVE  Waits(todo', Op("withdraw", t)) \/ Waits(todo', Op("return", t)) \/ public'[t] = Before(t)
        <3>1. CASE t # s
            BY <1>3, <1>4, <1>5, <3>1 DEF Back
        <3>2. CASE t = s
            BY <1>3, <1>4, <3>2, PlanFacts
        <3> QED
            BY <3>1, <3>2
    <2>2. \A t \in Slot : Waits(todo', Op("withdraw", t)) /\ Had(t) => Waits(todo', Op("return", t))
        BY <1>3, <1>5, <1>6 DEF Back
    <2> QED
        BY <1>1, <2>1, <2>2, PlansStay DEF Back
<1>8. Reach'
    BY <1>1, <1>3, <1>4, PlansStay DEF Reach
<1>9. /\ \A t \in Slot : public'[t] = public[t] \/ Changed(t)
      /\ mutated' \subseteq {t \in Slot : Changed(t)}
    BY <1>1, <1>3, <1>4 DEF DirectInv, DirectShape
<1> QED
    BY <1>1, <1>3, <1>4, <1>7, <1>8, <1>9, DirectOn

LEMMA InstallDrop == ASSUME DirectInv, Direct!DropAuxiliary PROVE DirectInv'
<1>1. /\ todo # <<>> /\ Head(todo).do \in {"drop-claim", "drop-prepared"}
      /\ todo' = Tail(todo) /\ mode' = IF Len(todo) = 1 THEN "idle" ELSE mode
      /\ result' = IF Len(todo) = 1 /\ result = "none"
                   THEN IF mode = "commit" THEN "done" ELSE "failed" ELSE result
      /\ UNCHANGED <<kind, edited, edits, public, mutated>>
    <2>1. Direct!Run({"drop-claim", "drop-prepared"}) /\ UNCHANGED <<public, mutated>>
        BY DEF Direct!DropAuxiliary, Direct!Drop
    <2> QED
        BY <2>1, DirectRunDoes
<1>2. Head(todo).do \in Tidying /\ Head(todo).do \notin {"unlink", "publish", "withdraw", "return"}
    BY <1>1 DEF Tidying
<1>3. Tidy(todo) /\ Tidy(todo)' /\ mode \in {"commit", "undo"}
    <2>1. Tidy(todo) /\ Tidy(Tail(todo))
        BY <1>1, <1>2, TidyOn DEF DirectInv, DirectShape
    <2> QED
        BY <1>1, <2>1 DEF Tidy, DirectInv, DirectShape
<1>4. AllAfter \/ AllBefore
    BY <1>3, ScriptIsOver DEF DirectInv, DirectStage
<1>5. Over' \/ Reach'
    BY <1>1, <1>3, <1>4, FilesStay, BeforeReachesNext DEF Over
<1> QED
    BY <1>1, <1>2, <1>5, DirectCalm

LEMMA LineOn ==
    ASSUME NEW ops, Line(ops), ops # <<>>
    PROVE  Line(Tail(ops)) /\ \A op : Waits(Tail(ops), op) => Waits(ops, op)
<1>1. /\ ops \in Seq(Ops) /\ InOrder(ops) /\ DOMAIN ops = 1 .. Len(ops) /\ Len(ops) \in Nat
      /\ Tail(ops) \in Seq(Ops) /\ Len(Tail(ops)) = Len(ops) - 1 /\ Len(ops) # 0
      /\ DOMAIN Tail(ops) = 1 .. Len(Tail(ops))
      /\ \A i \in 1 .. Len(Tail(ops)) : Tail(ops)[i] = ops[i + 1]
    BY HeadTailProperties, LenProperties, EmptySeq DEF Line
<1>2. \A i \in DOMAIN Tail(ops) : i + 1 \in DOMAIN ops /\ i + 1 # 1 /\ Tail(ops)[i] = ops[i + 1]
    BY <1>1
<1>3. \A i, j \in DOMAIN Tail(ops) : i < j => i + 1 < j + 1
    BY <1>1
<1>4. \A op : Waits(Tail(ops), op) => Waits(ops, op)
    BY <1>2 DEF Waits
<1>5. InOrder(Tail(ops))
    BY <1>1, <1>2, <1>3 DEF InOrder
<1>6. \A i \in DOMAIN Tail(ops) : Tail(ops)[i].do = "base" => i = 1
    BY <1>2 DEF Line
<1> QED
    BY <1>1, <1>4, <1>5, <1>6 DEF Line

\* The catch of a commit: every file that counts as changed is given back, if it can be.
LEMMA InstallRollBack ==
    ASSUME DirectInv, todo # <<>>, mode = "commit", NEW started, Direct!RollBack(started),
           started = mutated \/ started = Direct!Started, UNCHANGED <<links, users>>
    PROVE  DirectInv'
<1>1. UNCHANGED <<public, claim, kind, edited, edits>>
    BY DEF links, users
<1>2. /\ Line(todo) /\ Forth(todo) /\ Unmutated(todo)
      /\ result \notin {"done", "failed"} /\ Head(todo).slot \in Slot /\ Suits(Head(todo))
    BY Onward DEF DirectInv, DirectShape, DirectStage, Answered
<1>3. mutated \subseteq started /\ started \subseteq {s \in Slot : Changed(s)}
    BY <1>2 DEF Direct!Started, Direct!Due, Direct!At, Suits, DirectInv, DirectShape
<1> DEFINE rest == TakeBack(started)
<1>4. /\ mutated' = started
      /\ IF rest = <<>> THEN mode' = "idle" /\ todo' = <<>> ELSE mode' = "undo" /\ todo' = rest
      /\ result' \in {"incomplete", "failed", result}
      /\ result' = "failed" => result = "failed" \/ (started = {} /\ Direct!Cleanup = <<>>)
    <2>1. IF rest = <<>> THEN Direct!Stop ELSE mode' = "undo" /\ todo' = rest
        BY DirectOp DEF Direct!RollBack, Direct!PerSlotReversed, TakesBack, TakeBack, Zero
    <2> HIDE DEF rest
    <2> QED
        BY <2>1 DEF Direct!RollBack, Direct!Stop
<1> HIDE DEF rest
<1>5. /\ Line(rest) /\ \A op : Waits(rest, op) => op.do \in Reverting \cup Tidying /\ op.do # "erase"
      /\ \A s \in Slot : /\ Waits(rest, Op("withdraw", s)) <=> s \in started /\ Gets(s)
                         /\ Waits(rest, Op("return", s)) <=> s \in started /\ Had(s)
      /\ IF started = {} THEN Tidy(rest) ELSE rest # <<>> /\ Head(rest).do = "preflight"
    BY <1>3, RollsBack DEF rest
<1>6. todo' = rest
    BY <1>4
<1>7. DirectShape'
    <2>1. mode' \in {"new", "commit", "undo", "idle"} /\ (mode' \in {"new", "idle"} <=> todo' = <<>>)
        BY <1>4
    <2>2. mode' # "commit" /\ public \in [Slot -> Inodes] /\ DirectShape
        BY <1>4 DEF DirectInv, DirectShape, Named
    <2> QED
        BY <1>1, <1>3, <1>4, <1>5, <1>6, <2>1, <2>2, DirectShapeOn
<1>8. Back(todo)'
    <2>1. ASSUME NEW s \in Slot \ edited
          PROVE  Waits(rest, Op("withdraw", s)) \/ Waits(rest, Op("return", s)) \/ public[s] = Before(s)
        <3>1. CASE s \in started
            <4>1. Had(s) \/ Gets(s)
                BY <1>3, <3>1 DEF Had, Gets, Changed, Before, After
            <4> QED
                BY <1>5, <3>1, <4>1
        <3>2. CASE ~Changed(s)
            BY <3>2 DEF DirectInv, DirectShape
        <3>3. CASE s \notin started /\ Changed(s)
            <4>1. IF Had(s) THEN Waits(todo, Op("unlink", s)) ELSE Waits(todo, Op("publish", s))
                BY <1>2, <1>3, <3>3 DEF Unmutated
            <4>2. CASE Had(s)
                BY <1>2, <4>1, <4>2 DEF Forth
            <4>3. CASE ~Had(s)
                <5>1. ~Waits(todo, Op("unlink", s))
                    BY <1>2, <4>3, OpFields DEF Line, Suits
                <5> QED
                    BY <1>2, <4>1, <4>3, <5>1, PlanFacts DEF Forth
            <4> QED
                BY <4>2, <4>3
        <3> QED
            BY <3>1, <3>2, <3>3
    <2>2. \A s \in Slot : Waits(rest, Op("withdraw", s)) /\ Had(s) => Waits(rest, Op("return", s))
        BY <1>5
    <2> QED
        BY <1>1, <1>6, <2>1, <2>2, PlansStay DEF Back
<1>9. DirectStage'
    BY <1>4, <1>8 DEF DirectStage
<1>10. Answered'
    <2>1. result' # "done"
        BY <1>2, <1>4
    <2>2. ASSUME result' = "failed" PROVE mode' = "idle" /\ AllBefore'
        <3>1. started = {} /\ Direct!Cleanup = <<>>
            BY <1>2, <1>4, <2>2
        <3>2. rest = <<>>
            <4>1. <<>> \o <<>> = <<>>
                OBVIOUS
            <4> QED
                BY <3>1, <4>1 DEF rest, TakeBack
        <3>3. Tidy(todo)'
            BY <1>6, <3>2, NothingWaits DEF Tidy
        <3> QED
            BY <1>4, <1>8, <3>2, <3>3, ScriptIsOverNext
    <2> QED
        BY <2>1, <2>2 DEF Answered
<1>11. DirectCover'
    <2>1. CASE Reach
        BY <1>1, <2>1, PlansStay DEF Reach, DirectCover
    <2>2. CASE AllAfter
        <3>1. AllAfter'
            BY <1>1, <2>2, FilesStay
        <3>2. CASE started = {}
            BY <1>5, <1>6, <3>1, <3>2 DEF DirectCover, Over, Tidy
        <3>3. CASE started # {}
            BY <1>4, <1>5, <1>6, <3>1, <3>3 DEF DirectCover
        <3> QED
            BY <3>2, <3>3
    <2> QED
        BY <2>1, <2>2 DEF DirectInv, DirectCover, Over
<1> QED
    BY <1>7, <1>9, <1>10, <1>11 DEF DirectInv

\* A command that ends before its last operation.
LEMMA InstallStops ==
    ASSUME DirectInv, Direct!Stop, UNCHANGED <<links, users, mutated>>, result' \notin {"done", "failed"}
    PROVE  DirectInv'
<1>1. /\ todo' = <<>> /\ mode' = "idle" /\ UNCHANGED <<public, claim, kind, edited, edits, mutated>>
    BY DEF Direct!Stop, links, users
<1>2. DirectShape'
    <2>1. /\ DirectShape /\ public \in [Slot -> Inodes] /\ mutated \subseteq {s \in Slot : Changed(s)}
        BY DEF DirectInv, DirectShape, Named
    <2> QED
        BY <1>1, <2>1, NothingWaits, DirectShapeOn
<1>3. DirectCover'
    <2>1. Tidy(todo)'
        BY <1>1, NothingWaits DEF Tidy
    <2>2. CASE Reach
        BY <1>1, <2>2, PlansStay DEF Reach, DirectCover
    <2>3. CASE AllAfter
        BY <1>1, <2>1, <2>3, FilesStay DEF DirectCover, Over
    <2> QED
        BY <2>2, <2>3 DEF DirectInv, DirectCover, Over
<1> QED
    BY <1>1, <1>2, <1>3 DEF DirectInv, DirectStage, Answered

\* A roll-back that leaves a link, and the other link of its file, goes on to the rest.
LEMMA InstallSkip ==
    ASSUME DirectInv, todo # <<>>, mode = "undo", Head(todo).do \in Tidying, Direct!SkipAuxiliary,
           UNCHANGED <<links, users>>
    PROVE  DirectInv'
<1> DEFINE rest == Direct!Others(Direct!At)
<1>1. UNCHANGED <<public, claim, kind, edited, edits, mutated>> /\ result' = "incomplete"
    BY DEF links, users, Direct!SkipAuxiliary
<1>2. IF rest = <<>> THEN mode' = "idle" /\ todo' = <<>> ELSE todo' = rest /\ mode' = mode
    BY DEF Direct!SkipAuxiliary, Direct!Stop
<1>3. Line(todo) /\ Line(Tail(todo)) /\ \A op : Waits(Tail(todo), op) => Waits(todo, op)
    BY LineOn DEF DirectInv, DirectShape
<1>4. Line(rest) /\ \A op : Waits(rest, op) => Waits(todo, op)
    <2>1. CASE rest = Tail(todo)
        BY <1>3, <2>1
    <2>2. CASE rest # Tail(todo)
        <3>1. rest = Tail(Tail(todo)) /\ Len(todo) > 1
            BY <2>2 DEF Direct!Others
        <3>2. Tail(todo) # <<>>
            <4>1. Len(todo) # 1
                <5>1. \A n \in Nat : n > 1 => n # 1
                    OBVIOUS
                <5>2. Len(todo) \in Nat
                    BY <1>3, LenProperties DEF Line
                <5> QED
                    BY <3>1, <5>1, <5>2
            <4> QED
                BY <1>3, <4>1, Onward
        <3> HIDE DEF rest
        <3>3. Line(rest) /\ \A op : Waits(rest, op) => Waits(Tail(todo), op)
            BY <1>3, <3>1, <3>2, LineOn
        <3> QED
            BY <1>3, <3>3
    <2> QED
        BY <2>1, <2>2
<1> HIDE DEF rest
<1>5. Tidy(todo) /\ AllBefore
    BY <1>3, TidyOn, ScriptIsOver DEF DirectInv, DirectStage
<1>6. todo' = rest /\ mode' \in {"undo", "idle"} /\ (mode' = "idle" <=> todo' = <<>>)
    BY <1>2
<1>7. DirectShape'
    <2>1. /\ DirectShape /\ public \in [Slot -> Inodes] /\ mutated \subseteq {s \in Slot : Changed(s)}
        BY DEF DirectInv, DirectShape, Named
    <2>2. \A op : Waits(rest, op) => op.do # "erase" /\ op.do \in Tidying
        BY <1>4, <1>5 DEF DirectInv, DirectShape, Tidy
    <2> QED
        BY <1>1, <1>4, <1>6, <2>1, <2>2, DirectShapeOn
<1>8. AllBefore' /\ Tidy(todo)'
    BY <1>1, <1>4, <1>5, <1>6, FilesStay DEF Tidy
<1>9. Back(todo)' /\ Reach'
    BY <1>8, TidyNext, BeforeReachesNext
<1> QED
    BY <1>1, <1>6, <1>7, <1>9 DEF DirectInv, DirectStage, DirectCover, Answered

LEMMA InstallAbandon ==
    ASSUME DirectInv, todo # <<>>, Direct!Abandon, UNCHANGED <<links, users>>
    PROVE  DirectInv'
<1>1. CASE mode = "commit" /\ Direct!RollBack(Direct!Started)
    BY <1>1, InstallRollBack
<1>2. CASE mode = "undo" /\ Direct!Due({"drop-claim", "drop-prepared"}) /\ Direct!SkipAuxiliary
    BY <1>2, InstallSkip DEF Direct!Due, Tidying
<1>3. CASE Direct!Stop /\ result' = "incomplete" /\ UNCHANGED mutated
    BY <1>3, InstallStops
<1> QED
    BY <1>1, <1>2, <1>3 DEF Direct!Abandon

LEMMA InstallRefuse == ASSUME DirectInv, Direct!Refuse PROVE DirectInv'
<1>1. todo # <<>> /\ UNCHANGED <<links, users>>
    BY DEF Direct!Refuse, Direct!links, Direct!users, links, users
<1>2. CASE mode = "commit" /\ Direct!RollBack(mutated)
    BY <1>1, <1>2, InstallRollBack
<1>3. CASE mode = "commit" /\ Direct!RollBack(Direct!Started)
    BY <1>1, <1>3, InstallRollBack
<1>4. CASE Direct!Abandon
    BY <1>1, <1>4, InstallAbandon
<1> QED
    BY <1>2, <1>3, <1>4 DEF Direct!Refuse

LEMMA InstallFault == ASSUME DirectInv, Direct!Fault PROVE DirectInv'
<1>1. todo # <<>> /\ Direct!Abandon /\ UNCHANGED <<links, users>>
    BY DEF Direct!Fault, Direct!links, Direct!users, links, users
<1> QED
    BY <1>1, InstallAbandon

LEMMA InstallCrash == ASSUME DirectInv, Direct!Crash PROVE DirectInv'
<1>1. todo # <<>> /\ Direct!Stop /\ UNCHANGED <<links, users, mutated, result>>
    BY DEF Direct!Crash, Direct!CrashCommand, Direct!links, Direct!users, Direct!outcome, links, users
<1>2. result' \notin {"done", "failed"}
    BY <1>1 DEF DirectInv, DirectShape, Answered
<1> QED
    BY <1>1, <1>2, InstallStops

LEMMA InstallEdit == ASSUME DirectInv, Direct!Edit PROVE DirectInv'
<1>1. todo # <<>> /\ Direct!UserEdit /\ UNCHANGED <<mutated, result>>
    BY DEF Direct!Edit, Direct!outcome
<1>2. PICK s \in Slot : /\ edited' = edited \cup {s}
                        /\ \/ \E inode \in {"none", "foreign"} : public' = [public EXCEPT ![s] = inode]
                           \/ UNCHANGED public
    BY <1>1, DirectIs DEF Direct!UserEdit
<1>3. UNCHANGED <<kind, claim, todo, mode>> /\ edits' = edits + 1
    BY <1>1 DEF Direct!UserEdit, Direct!command
<1>4. public \in [Slot -> Inodes] /\ edits \in Nat /\ edits' \in Nat
    BY <1>3 DEF DirectInv, DirectShape, Named
<1>5. /\ public' \in [Slot -> Inodes]
      /\ \A t \in Slot \ edited' : t \in Slot \ edited /\ public'[t] = public[t]
    BY <1>2, <1>4 DEF Inodes
<1>6. DirectShape'
    <2>1. Line(todo)'
        BY <1>3, PlansStay DEF DirectInv, DirectShape, Line
    <2>2. /\ \A t \in Slot \ edited' : ~Changed(t)' => public'[t] = Before(t)'
          /\ mutated' \subseteq {t \in Slot : Changed(t)'}
        BY <1>1, <1>3, <1>5, PlansStay DEF DirectInv, DirectShape
    <2> QED
        BY <1>3, <1>4, <1>5, <2>1, <2>2 DEF DirectInv, DirectShape, Named
<1>7. (AllBefore => AllBefore') /\ (AllAfter => AllAfter')
    BY <1>3, <1>5, PlansStay DEF AllBefore, AllAfter
<1>8. (Forth(todo) => Forth(todo)') /\ (Back(todo) => Back(todo)') /\ (Unmutated(todo) => Unmutated(todo)')
    BY <1>1, <1>3, <1>5, PlansStay DEF Forth, Back, Unmutated
<1>9. (Over => Over') /\ (Reach => Reach')
    BY <1>3, <1>5, <1>7, PlansStay DEF Over, Reach, Tidy
<1>10. Answered'
    BY <1>1, <1>3, <1>7 DEF DirectInv, Answered
<1>11. DirectStage'
    BY <1>1, <1>3, <1>7, <1>8 DEF DirectInv, DirectStage
<1>12. DirectCover'
    BY <1>3, <1>7, <1>9 DEF DirectInv, DirectCover
<1> QED
    BY <1>6, <1>10, <1>11, <1>12 DEF DirectInv

LEMMA InstallInit == ASSUME Direct!Init PROVE DirectInv
<1>1. /\ public = [s \in Slot |-> Before(s)] /\ edited = {} /\ mode = "new" /\ todo = <<>> /\ edits = 0
      /\ mutated = {} /\ result = "none"
    BY DirectIs DEF Direct!Init, Direct!FilesInit
<1>2. \A s \in Slot : public[s] = Before(s)
    BY <1>1
<1>3. Named
    BY <1>1, Planned DEF Named
<1>4. DirectShape
    BY <1>1, <1>2, <1>3, NothingWaits DEF DirectShape
<1>5. AllBefore
    BY <1>2 DEF AllBefore
<1> QED
    BY <1>1, <1>4, <1>5, BeforeReaches DEF DirectInv, DirectStage, DirectCover, Answered

LEMMA InstallNext == ASSUME DirectInv, Direct!Next PROVE DirectInv'
BY InstallBegin, InstallClaim, InstallUnlink, InstallPublish, InstallVerify, InstallWithdraw, InstallReturn, InstallDrop,
   InstallRefuse, InstallFault, InstallCrash, InstallEdit DEF Direct!Next

LEMMA InstallStays == ASSUME DirectInv, UNCHANGED vars PROVE DirectInv'
<1>1. UNCHANGED <<public, claim, kind, edited, edits, mode, todo, mutated, result>>
    BY DEF vars, files, links, users, command, outcome
<1>2. DirectShape'
    <2>1. DirectShape /\ public \in [Slot -> Inodes]
        BY DEF DirectInv, DirectShape, Named
    <2> QED
        BY <1>1, <2>1, DirectShapeOn DEF DirectShape
<1>3. DirectStage' /\ Answered'
    <2>1. Unmutated(todo) => Unmutated(todo)'
        BY <1>1, PlansStay DEF Unmutated
    <2> QED
        BY <1>1, <2>1, FilesStay DEF DirectInv, DirectStage, Answered
<1>4. DirectCover'
    <2>1. (Over => Over') /\ (Reach => Reach')
        BY <1>1, FilesStay, PlansStay DEF Over, Tidy, Reach
    <2> QED
        BY <1>1, <2>1, FilesStay DEF DirectInv, DirectCover
<1> QED
    BY <1>2, <1>3, <1>4 DEF DirectInv

LEMMA InstallMeans == ASSUME DirectInv PROVE OriginalsReachable /\ Direct!ReportedTruly
<1>1. OriginalsReachable
    BY DEF DirectInv, DirectCover, Over, Reach, OriginalsReachable
<1>2. Direct!ReportedTruly
    BY DirectIs DEF DirectInv, Answered, Direct!ReportedTruly
<1> QED
    BY <1>1, <1>2

-----------------------------------------------------------------------------
(* Whole or journaled, and truly reported.                                 *)

\* While releases are followed no file of a transaction is touched.
Whole ==
    /\ by \in {"manager", "direct", "releases"}
    /\ by = "manager" => WholeInv
    /\ by = "direct" => DirectInv
    /\ by = "releases" => AllAfter

LEMMA WholeAtFirst == InstallationInit => Whole
<1> SUFFICES ASSUME InstallationInit PROVE Whole
    OBVIOUS
<1>1. CASE by = "manager" /\ Manager!Init
    BY <1>1, WholeInit DEF Whole
<1>2. CASE by = "direct" /\ Direct!Init
    BY <1>2, InstallInit DEF Whole
<1>3. CASE by = "releases" /\ FilesInit /\ kind = [s \in Slot |-> "read"]
    <2>1. \A s \in Slot : public[s] = Before(s) /\ ~Changed(s)
        BY <1>3 DEF FilesInit, Changed
    <2>2. AllAfter
        BY <2>1, PlanFacts DEF AllAfter
    <2> QED
        BY <1>3, <2>2 DEF Whole
<1> QED
    BY <1>1, <1>2, <1>3 DEF InstallationInit, Init

LEMMA WholeThen == Whole /\ [InstallationNext]_<<vars, releases>> => Whole'
<1> SUFFICES ASSUME Whole, [InstallationNext]_<<vars, releases>> PROVE Whole'
    OBVIOUS
<1>1. CASE by = "manager" /\ Manager!Next /\ by' = by
    BY <1>1, WholeNext DEF Whole
<1>2. CASE by = "direct" /\ Direct!Next /\ by' = by
    BY <1>2, InstallNext DEF Whole
<1>3. CASE UNCHANGED vars
    <2>1. by' = by /\ UNCHANGED <<public, kind, edited>>
        BY <1>3 DEF vars, files, links, users
    <2> QED
        BY <1>3, <2>1, WholeStays, InstallStays, FilesStay DEF Whole
<1> QED
    BY <1>1, <1>2, <1>3 DEF InstallationNext, Next

\* The bytes that the manager or the direct installer replaces can be had until every file is
\* the new one; files that are neither all old nor all new are covered by the manager's
\* journal, and a roll-back of its that was cut short can be repaired (journaled phases and
\* claims of scripts/manager-core.ts, claims of commitFileCasPlans in src/config-editor.ts).
THEOREM WholeAlways == InstallationSpec => []WholeOrJournaled
<1>1. InstallationInit => Whole
    BY WholeAtFirst
<1>2. Whole /\ [InstallationNext]_<<vars, releases>> => Whole'
    BY WholeThen
<1>3. Whole => WholeOrJournaled
    <2>1. by = "releases" /\ AllAfter => OriginalsReachable
        BY DEF OriginalsReachable
    <2> QED
        BY <2>1, WholeMeans, InstallMeans DEF Whole, WholeOrJournaled
<1> QED
    BY <1>1, <1>2, <1>3, PTL DEF InstallationSpec

\* The caller of the direct installer is told the truth: without an error every file nobody
\* else touched is the new one, with a plain error every such file is the old one, whichever
\* check or operation failed, wherever the roll-back began, and whoever edited meanwhile
\* (commitFileCasPlans and its catch in src/config-editor.ts).
THEOREM ReportsAreTrue == InstallationSpec => []ReportedTruly
<1>1. InstallationInit => Whole
    BY WholeAtFirst
<1>2. Whole /\ [InstallationNext]_<<vars, releases>> => Whole'
    BY WholeThen
<1>3. Whole => ReportedTruly
    BY InstallMeans DEF Whole, ReportedTruly
<1> QED
    BY <1>1, <1>2, <1>3, PTL DEF InstallationSpec
=============================================================================

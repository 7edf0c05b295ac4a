------------------------- MODULE ManagerTransaction -------------------------
(***************************************************************************)
(* commitTransaction and recoverJournal of scripts/manager-core.ts: config *)
(* files, agents and, last, the receipt are replaced under a journal, and  *)
(* a journal left behind is repaired by `doctor --repair-journal`.         *)
(*                                                                         *)
(* `todo` is what the running command still has to do.  The journal is     *)
(* the sequence of its revisions, of which only the claims each one has    *)
(* recorded matter to the repair; a revision is a data file and its        *)
(* anchor, and `half` says that the anchor of the last one is missing.     *)
(* The manager's lock keeps a second command out, and a pending journal    *)
(* keeps new transactions out, so one transaction is followed.             *)
(***************************************************************************)
EXTENDS LiveFiles

VARIABLES
    journal,   \* per revision, the slots whose claim is recorded
    half       \* the last revision has no anchor

ledger == <<journal, half>>
managerVars == <<files, ledger>>

\* Phases are revisions without a claim.
Phase == {"base", "writing", "files-claimed", "live-written", "receipt-claimed",
          "receipt-published", "receipt-committed"}
Journaled == Phase \cup {"record"}
Final == {"drop-claim", "drop-prepared", "erase"}

Claims(s) == When(Changed(s), Do("claim", s)) \o When(Changed(s) /\ Had(s), Do("record", s))

Cleanup == PerSlot(1, Drops) \o Drops(Receipt) \o <<Do("erase", Receipt)>>
Script ==
    <<Do("base", Receipt), Do("writing", Receipt)>> \o PerSlot(1, Claims)
    \o <<Do("files-claimed", Receipt)>> \o PerSlot(1, Replaces)
    \o <<Do("live-written", Receipt)>> \o Claims(Receipt)
    \o When(Had(Receipt), Do("unlink", Receipt)) \o <<Do("receipt-claimed", Receipt)>>
    \o <<Do("publish", Receipt), Do("receipt-published", Receipt)>>
    \o <<Do("receipt-committed", Receipt)>> \o Cleanup
RestoreFiles ==
    <<Do("preflight", Receipt)>> \o PerSlotReversed(1, Restores)

-----------------------------------------------------------------------------
(* What is checked before an operation.                                    *)

Recorded == IF journal = <<>> THEN {} ELSE Last(journal)

\* Mutant: a claim that was linked and not recorded is never the transaction's own.
AmbiguousUnrecorded(s) == s \in claim \ Recorded
\* ownedLiveClaimIdentity and ownedLivePreparedIdentity refuse this link.
Ambiguous(s) ==
    \/ s \in claim /\ (~Intact(s, "before") \/ (s \notin Recorded /\ ~Holds(s, "before")))
    \/ s \in prepared /\ ~Intact(s, "after")

\* classifyJournalPublicFile; a published file is recognised by its prepared link.
Class(s) ==
    CASE public[s] = "none" -> "none"
      [] Holds(s, "before") -> "before"
      [] Holds(s, "after") /\ s \in prepared -> "after"
      [] OTHER -> "third"

Published == {f \in File : ~Pending("unlink", f) /\ ~Pending("publish", f)}
\* Mutant: only files that are published already are compared.
ReadSetPublished(vacant) == \A f \in File \cap Published : f \in vacant \/ Holds(f, After(f))
\* assertCompleteReadSet, where the slot between its unlink and its publication is vacant.
ReadSet(vacant) == \A f \in File :
    IF f \in vacant THEN public[f] = "none"
    ELSE Holds(f, IF f \in Published THEN After(f) ELSE Before(f))
Baseline == Holds(Receipt, Before(Receipt))
FilesAfter == \A f \in File : Changed(f) => ~Ambiguous(f) /\ Class(f) = After(f)

Restorable == \A f \in File : Changed(f) =>
    /\ ~Ambiguous(f) /\ Class(f) # "third"
    /\ Had(f) => Class(f) = "before" \/ f \in claim

Checked(op) ==
    LET s == op.slot IN
    CASE op.do \in {"base", "writing"} -> Baseline /\ ReadSet({})
      [] op.do = "claim" -> Baseline /\ ReadSet({}) /\ (s = Receipt => FilesAfter)
      [] op.do = "live-written" -> Baseline /\ ReadSet({}) /\ FilesAfter
      [] op.do = "unlink" -> Baseline /\ ReadSet({}) /\ ~Ambiguous(s)
      [] op.do = "publish" /\ s # Receipt -> Baseline /\ ReadSet({s})
      [] op.do = "publish" /\ s = Receipt -> public[s] = "none" /\ ReadSet({})
      [] op.do = "receipt-published" -> Holds(Receipt, "after")
      [] op.do = "receipt-committed" -> Holds(Receipt, "after") /\ FilesAfter
      [] op.do = "preflight" -> Restorable
      [] op.do = "withdraw" -> Class(s) \in (IF s = Receipt THEN {"after"} ELSE {"none", "before", "after"})
      [] op.do = "return" -> Class(s) = "before"
                             \/ (public[s] = "none" /\ s \in claim /\ Intact(s, "before"))
      [] op.do \in {"drop-claim", "drop-prepared"} -> ~Ambiguous(s)
      [] OTHER -> TRUE

-----------------------------------------------------------------------------
(* Operations.                                                             *)

Init ==
    /\ FilesInit /\ kind[Receipt] \in {"replace", "create"}
    /\ journal = <<>> /\ half = FALSE

Begin == BeginWith(Script) /\ UNCHANGED ledger

Run(names) ==
    Due(names) /\ Checked(Head(todo)) /\ Proceed /\ UNCHANGED <<users, ledger, bounds>>

\* publishImmutableJournalPair: the data file, then its anchor.
PublishData ==
    /\ Due(Journaled) /\ ~half /\ Checked(Head(todo))
    /\ journal' = Append(journal, Recorded \cup (IF Due({"record"}) THEN {At} ELSE {}))
    /\ half' = TRUE
    /\ UNCHANGED <<links, users, command, bounds>>
PublishAnchor ==
    /\ Due(Journaled) /\ half /\ half' = FALSE
    /\ Proceed
    /\ UNCHANGED <<links, users, journal, bounds>>

Claim == Run({"claim"}) /\ TakeClaim(At)
UnlinkPublic == Run({"unlink"}) /\ Unlink(At)
PublishPrepared == Run({"publish"}) /\ Link(At, "after")
Preflight == Run({"preflight"}) /\ UNCHANGED links
Withdraw == Run({"withdraw"}) /\ (IF Class(At) = "after" THEN Unlink(At) ELSE UNCHANGED links)
Return == Run({"return"}) /\ (IF public[At] = "none" THEN Link(At, "before") ELSE UNCHANGED links)
DropAuxiliary == Run({"drop-claim", "drop-prepared"}) /\ Drop(Head(todo))

\* cleanupJournalArtifacts: the last revision first, and of each its anchor first.
EraseAnchor ==
    /\ Due({"erase"}) /\ ~half /\ half' = TRUE
    /\ UNCHANGED <<links, users, command, journal, bounds>>
EraseData ==
    /\ Due({"erase"}) /\ half /\ half' = FALSE
    /\ journal' = Front(journal)
    /\ IF Len(journal) = 1 THEN Proceed ELSE UNCHANGED command
    /\ UNCHANGED <<links, users, bounds>>

\* The catch of commitTransaction: the receipt is taken back first, then the files.
\* Mutant: files are restored although the receipt stays published.
UndoKeepingReceipt == mode' = "undo" /\ todo' = RestoreFiles \o Cleanup
Undo ==
    LET taken == Had(Receipt) /\ ~Pending("claim", Receipt)
        claimed == Receipt \in claim \cap Recorded /\ Intact(Receipt, "before")
        committed == ~Pending("publish", Receipt)
        putBack == When(committed, Do("withdraw", Receipt))
                   \o When(taken, Do("return", Receipt))
        possible == IF committed THEN Holds(Receipt, "after") /\ (taken => claimed)
                    ELSE taken => ~Pending("unlink", Receipt) /\ claimed /\ public[Receipt] = "none"
    IN  IF possible THEN mode' = "undo" /\ todo' = putBack \o RestoreFiles \o Cleanup
        ELSE Stop

\* A check fails, or a file operation does.
Abandon == IF mode = "commit" /\ ~Due(Final) THEN Undo ELSE Stop
Refuse ==
    /\ todo # <<>> /\ ~half /\ ~Checked(Head(todo))
    /\ Abandon
    /\ UNCHANGED <<links, users, ledger, bounds>>
Fault ==
    /\ faults < MaxFaults /\ faults' = faults + 1
    /\ todo # <<>> /\ ~Due(Journaled)
    /\ Abandon
    /\ UNCHANGED <<links, users, ledger, crashes>>
\* A publication that fails takes its data file back; the evidence is kept, and without a
\* base revision there is none.
JournalFault ==
    /\ faults < MaxFaults /\ faults' = faults + 1
    /\ Due(Journaled)
    /\ journal' = (IF half THEN Front(journal) ELSE journal) /\ half' = FALSE
    /\ prepared' = (IF Due({"base"}) THEN {} ELSE prepared)
    /\ Stop
    /\ UNCHANGED <<public, claim, users, crashes>>

Crash == CrashCommand /\ UNCHANGED ledger

\* recoverJournal; the receipt is recognised by the identity in the journal.
ClaimedBefore == public[Receipt] = "none" /\ Had(Receipt) /\ Receipt \in claim
Readable == journal # <<>> /\ ~half
Forward == Holds(Receipt, "after")
Backward == Baseline \/ ClaimedBefore
Repairable == Readable /\ ~Ambiguous(Receipt) /\
              ((Forward /\ FilesAfter) \/ (Backward /\ Restorable))

Recover ==
    /\ mode = "idle" /\ Repairable
    /\ mode' = "recover"
    /\ todo' = IF Forward THEN Cleanup
               ELSE RestoreFiles \o When(ClaimedBefore, Do("return", Receipt)) \o Cleanup
    /\ UNCHANGED <<links, users, ledger, bounds>>

Edit == journal # <<>> /\ UserEdit /\ UNCHANGED ledger

Next ==
    \/ Begin \/ PublishData \/ PublishAnchor \/ Claim \/ UnlinkPublic \/ PublishPrepared
    \/ Preflight \/ Withdraw \/ Return \/ DropAuxiliary \/ EraseAnchor \/ EraseData
    \/ Refuse \/ Fault \/ JournalFault \/ Crash \/ Recover \/ Edit

Spec == Init /\ [][Next]_managerVars

-----------------------------------------------------------------------------
(* Properties.                                                             *)

\* The journal records claims of files that existed; its last pair may lack the anchor.
ManagerTypeOK ==
    /\ \A r \in DOMAIN journal : journal[r] \subseteq {s \in Slot : Changed(s) /\ Had(s)}
    /\ half \in BOOLEAN
    /\ half => journal # <<>>

\* "the receipt commits last" (DESIGN.md): while the new receipt is public so is every file it
\* speaks of, through failures, crashes, rollback and repair, unless a user changed it.
ReceiptCommitsLast ==
    public[Receipt] = "after" => \A f \in File \ edited : public[f] = After(f)

\* A transaction whose journal is gone happened or did not: a user's edit, a fault or a crash
\* in any step, of the rollback or of the repair too, never leaves a mixture without a journal.
WholeOrJournaled ==
    (mode = "idle" /\ journal = <<>>) => AllBefore \/ AllAfter

\* "A mid-restore ordinary failure can leave a mixture of exact before/after states; the
\* journal remains and a later repair safely retries" (docs/upgrades.md): wherever a command
\* stopped before it published the receipt, its journal can be repaired, as long as nobody
\* edited the files and the journal's last pair is complete.
RollbackRepairable ==
    (mode = "idle" /\ Readable /\ edits = 0 /\ public[Receipt] # "after") => Repairable

\* "doctor finalizes a receipt-committed crash journal instead of rolling live files back"
\* (tests/manager.test.ts): with the new receipt and all new files in place, untouched, and
\* a complete journal, the repair must be possible.
CommittedIsFinalised ==
    (mode = "idle" /\ Readable /\ edits = 0 /\ public[Receipt] = "after") => Repairable
=============================================================================

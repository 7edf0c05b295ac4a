-------------------------- MODULE FileTransactions --------------------------
(***************************************************************************)
(* The files of an installation are replaced by the manager under its      *)
(* journal or by the direct installer without one.  What both promise of   *)
(* the files (LiveFiles) is stated once, and checked of either.            *)
(***************************************************************************)
EXTENDS LiveFiles

VARIABLES by, journal, half, mutated, result
ledger == <<journal, half>>
outcome == <<mutated, result>>
vars == <<files, by, ledger, outcome>>

Manager == INSTANCE ManagerTransaction
Direct == INSTANCE ConfigCommit

Init ==
    \/ by = "manager" /\ Manager!Init /\ mutated = {} /\ result = "none"
    \/ by = "direct" /\ Direct!Init /\ journal = <<>> /\ half = FALSE
Next ==
    \/ by = "manager" /\ Manager!Next /\ UNCHANGED <<by, outcome>>
    \/ by = "direct" /\ Direct!Next /\ UNCHANGED <<by, ledger>>
Spec == Init /\ [][Next]_vars

\* Every variable of either command, and of the files, has its type.
TypeOK == FilesTypeOK /\ Manager!ManagerTypeOK /\ Direct!ConfigTypeOK
\* The manager's receipt is published after every file it speaks of.
ReceiptCommitsLast == by = "manager" => Manager!ReceiptCommitsLast
\* The bytes either command replaces can be had until every file is the new one; files that
\* are neither all old nor all new are covered by the manager's journal, and a roll-back that
\* was cut short can be repaired.
WholeOrJournaled ==
    /\ OriginalsReachable
    /\ by = "manager" => Manager!WholeOrJournaled /\ Manager!RollbackRepairable
\* A journal that says "committed" waits for its claims to be dropped.
CommittedIsFinalised == by = "manager" => Manager!CommittedIsFinalised
\* The installer's error says whether the files were changed.
ReportedTruly == by = "direct" => Direct!ReportedTruly
\* After a failure the installer's files are as they were.
FailureRestores == by = "direct" => Direct!FailureRestores
=============================================================================

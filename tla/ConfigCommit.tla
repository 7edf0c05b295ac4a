---------------------------- MODULE ConfigCommit ----------------------------
(***************************************************************************)
(* commitFileCasPlans of src/config-editor.ts: the direct installer and    *)
(* /alg-models replace files without a journal.  Every file is claimed     *)
(* before the first is changed; a failure rolls back what was changed, but *)
(* only if all files can be; a crash leaves whatever there is.  Every slot *)
(* is a file like the others.                                              *)
(***************************************************************************)
EXTENDS LiveFiles

VARIABLES
    mutated,  \* record.mutated
    result    \* what the caller is told: done, failed (rolled back), or incomplete

outcome == <<mutated, result>>
configVars == <<files, outcome>>

Claims(s) == When(Changed(s), Do("claim", s))
Cleanup == PerSlot(0, Drops)
Script ==
    PerSlot(0, Claims) \o <<Do("all-claimed", 0)>> \o PerSlot(0, Replaces)
    \o <<Do("all-published", 0)>> \o Cleanup

-----------------------------------------------------------------------------
(* What is checked before an operation.                                    *)

\* assertPublicReadSet.
ReadSet(vacant) == \A s \in Slot :
    IF s \in vacant THEN public[s] = "none"
    ELSE Holds(s, IF s \in mutated THEN After(s) ELSE Before(s))
\* assertPreparedAndClaim.
Kept(s) ==
    /\ Changed(s) /\ Gets(s) => s \in prepared /\ Intact(s, "after")
    /\ Changed(s) /\ Had(s) => s \in claim /\ Intact(s, "before")

\* rollbackPreflight.
RollbackPossible == \A s \in Slot :
    /\ Kept(s)
    /\ IF s \notin mutated THEN Holds(s, Before(s))
       ELSE public[s] = "none" \/ (Gets(s) /\ Holds(s, "after"))

Checked(op) ==
    LET s == op.slot IN
    CASE op.do = "claim" -> Holds(s, Before(s))
      [] op.do = "all-claimed" -> ReadSet({}) /\ \A t \in Slot : Kept(t)
      [] op.do = "unlink" -> ReadSet({}) /\ Kept(s)
      [] op.do = "publish" -> ReadSet({s}) /\ (Had(s) \/ Kept(s))
      [] op.do = "all-published" -> ReadSet({})
      [] op.do = "preflight" -> RollbackPossible
      [] op.do = "withdraw" -> public[s] = "none" \/ (Gets(s) /\ Holds(s, "after"))
      [] op.do = "return" -> public[s] = "none"
      [] op.do = "all-restored" -> \A t \in Slot : Holds(t, Before(t))
      [] op.do = "drop-claim" -> s \in claim => Intact(s, "before")
      [] op.do = "drop-prepared" -> s \in prepared => Intact(s, "after")

-----------------------------------------------------------------------------
(* Operations.                                                             *)

Init == FilesInit /\ mutated = {} /\ result = "none"

Begin == BeginWith(Script) /\ UNCHANGED outcome

\* A command that has done all it had to do says how it ended.
Answer(ending) == result' = IF Len(todo) = 1 /\ result = "none" THEN ending ELSE result
Ending == IF mode = "commit" THEN "done" ELSE "failed"
Run(names) ==
    /\ Due(names) /\ Checked(Head(todo)) /\ Proceed
    /\ Answer(Ending)
    /\ UNCHANGED <<users, bounds>>

Claim == Run({"claim"}) /\ TakeClaim(At) /\ UNCHANGED mutated
UnlinkPublic == Run({"unlink"}) /\ mutated' = mutated \cup {At} /\ Unlink(At)
PublishPrepared == Run({"publish"}) /\ mutated' = mutated \cup {At} /\ Link(At, "after")
Verify == Run({"all-claimed", "all-published", "preflight", "all-restored"})
          /\ UNCHANGED <<links, mutated>>
Withdraw == Run({"withdraw"}) /\ Unlink(At) /\ UNCHANGED mutated
Return == Run({"return"}) /\ Link(At, "before") /\ UNCHANGED mutated
DropAuxiliary == Run({"drop-claim", "drop-prepared"}) /\ Drop(Head(todo)) /\ UNCHANGED mutated

\* The catch of commitFileCasPlans.  A file counts as changed from before its unlink.
Started == IF Due({"unlink", "publish"}) THEN mutated \cup {At} ELSE mutated
RestoresMutated(started, s) ==
    When(s \in started /\ Gets(s), Do("withdraw", s)) \o When(s \in started /\ Had(s), Do("return", s))
\* Mutant: links are removed and files stay as they are.
RollBackNothing(started) ==
    mutated' = started /\ mode' = "undo" /\ todo' = <<Do("drop-claim", 0)>> \o Cleanup /\ UNCHANGED result
RollBack(started) ==
    /\ mutated' = started
    /\ LET Restored(s) == RestoresMutated(started, s)
           restore == IF started = {} THEN <<>>
                      ELSE <<Do("preflight", 0)>> \o PerSlotReversed(0, Restored)
                           \o <<Do("all-restored", 0)>>
           rest == restore \o Cleanup
       IN  IF rest = <<>> THEN Stop ELSE mode' = "undo" /\ todo' = rest
    \* A claim that turned out to be of another file is left behind.
    /\ result' = IF Due({"claim"}) /\ Had(At) /\ public[At] # "none" /\ ~Checked(Head(todo))
                 THEN "incomplete"
                 ELSE IF started = {} /\ Cleanup = <<>> THEN "failed" ELSE result

\* In the rollback a link that cannot be removed is left, the other link of its file with it, and
\* the rest is cleaned up.
Others(s) == IF Len(todo) > 1 /\ todo[2].slot = s THEN Tail(Tail(todo)) ELSE Tail(todo)
SkipAuxiliary ==
    /\ result' = "incomplete"
    /\ IF Others(At) = <<>> THEN Stop ELSE todo' = Others(At) /\ UNCHANGED mode
    /\ UNCHANGED mutated

Abandon ==
    \/ mode = "commit" /\ RollBack(Started)
    \/ mode = "undo" /\ Due({"drop-claim", "drop-prepared"}) /\ SkipAuxiliary
    \/ mode = "undo" /\ ~Due({"drop-claim", "drop-prepared"})
       /\ Stop /\ result' = "incomplete" /\ UNCHANGED mutated
Refuse ==
    /\ todo # <<>> /\ ~Checked(Head(todo))
    /\ \/ mode = "commit" /\ RollBack(mutated)
       \* What is vacant is looked at again once a file that did not exist counts as changed.
       \/ mode = "commit" /\ Due({"publish"}) /\ RollBack(Started)
       \/ mode = "undo" /\ Abandon
    /\ UNCHANGED <<links, users, bounds>>
Fault ==
    /\ todo # <<>> /\ Checked(Head(todo))
    /\ faults < MaxFaults /\ faults' = faults + 1
    /\ Abandon
    /\ UNCHANGED <<links, users, crashes>>

Crash == CrashCommand /\ UNCHANGED outcome
Edit == todo # <<>> /\ UserEdit /\ UNCHANGED outcome

Next ==
    \/ Begin \/ Claim \/ UnlinkPublic \/ PublishPrepared \/ Verify \/ Withdraw \/ Return
    \/ DropAuxiliary \/ Refuse \/ Fault \/ Crash \/ Edit

Spec == Init /\ [][Next]_configVars

-----------------------------------------------------------------------------
(* Properties.                                                             *)

ConfigTypeOK ==
    /\ mutated \subseteq {s \in Slot : Changed(s)}
    /\ result \in {"none", "done", "failed", "incomplete"}
    /\ result \in {"done", "failed"} => mode = "idle"

\* The caller is told the truth: without an error every file is the new one, with a plain
\* error every file is the old one, whichever check or operation failed and whoever edited.
ReportedTruly ==
    /\ result = "done" => AllAfter
    /\ result = "failed" => AllBefore

\* "Config and agent commits are transactional: a later write/copy/remove failure restores
\* every earlier live file to exact original bytes" (README.md): after a failure that nobody
\* else had a hand in, there is no mixture of old and new files.
FailureRestores ==
    (mode = "idle" /\ edits = 0 /\ crashes = 0) => AllBefore \/ AllAfter
=============================================================================

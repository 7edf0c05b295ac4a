------------------------------ MODULE ShellGate ------------------------------
(***************************************************************************)
(* One shell gate (src/shell.ts, executeShellGate): a command is started   *)
(* after permission was given, and ends by itself, by its timeout or by    *)
(* the abort of its call; the gate answers when it has looked whether      *)
(* anything of the command is left.                                        *)
(*                                                                         *)
(* On POSIX systems the command is the leader of a process group.  On      *)
(* Windows the leader is the native helper: it makes a Job, waits for a    *)
(* watcher process to open it, starts the command inside and waits for it; *)
(* the Job dies with its last handle.  A signal kills at once or leaves a  *)
(* process "doomed", which may never be reaped; a POSIX process may leave  *)
(* the group.  Delays may take any time: every timer that is set can fire, *)
(* and none has to fire before anything else happens.                      *)
(***************************************************************************)
EXTENDS Naturals, FiniteSets

CONSTANTS
    Platform,   \* of {"posix", "win32"}
    Proc,       \* processes of one command, Leader and Command among them
    Leader, Command,
    MaxFaults   \* bound: steps of helper and watcher that fail

GateAssumption ==
    /\ Platform \subseteq {"posix", "win32"} /\ MaxFaults \in Nat
    /\ {Leader, Command} \subseteq Proc /\ Leader # Command

VARIABLES
    platform,
    proc,     \* "none", "runs", "away" from the group, "doomed" or "dead"
    holds,    \* processes with the pipes of the gate
    exit,     \* how the command ended, when the leader tells: "none", "zero" or "other"
    aborted,  \* the signal of the call
    gate,     \* pc, armed timers, flags and the observed close of the gate
    term,     \* where the termination is that the gate or the close handler started
    result,
    job,      \* handles of the Job, whether the helper is in it, what control files exist, the watcher
    signalled,\* ghost: the gate killed or asked for it while the leader ran
    faults

vars == <<platform, proc, holds, exit, aborted, gate, term, result, job, signalled, faults>>

Windows == platform = "win32"
NoResult == [ok |-> FALSE, code |-> "none", timedOut |-> FALSE, cancelled |-> FALSE, failed |-> FALSE]
Fresh == [pc |-> "ask", timer |-> "none", timedOut |-> FALSE, cancelled |-> FALSE,
          failed |-> FALSE, close |-> "none"]
\* "early" is a ghost: the Job was found empty before the helper had put itself into it.
NoJob == [handles |-> {}, joined |-> FALSE, control |-> FALSE, command |-> FALSE, request |-> FALSE,
          answer |-> "none", watcher |-> "none", early |-> FALSE]

Init ==
    /\ platform \in Platform
    /\ proc = [p \in Proc |-> "none"] /\ holds = {} /\ exit = "none" /\ aborted = FALSE
    /\ gate = Fresh /\ term = "none" /\ result = NoResult /\ job = NoJob
    /\ signalled = FALSE /\ faults = 0

Alive(p) == proc[p] \in {"runs", "away", "doomed"}
Group == {p \in Proc : proc[p] \in {"runs", "doomed"}}
Gone(p) == proc[p] = "dead"
At(pc) == gate.pc = pc
Terminating == term # "none"

\* What signals to these processes may do to all processes: a kill cannot be refused, but
\* need not be over when it was sent.
Killed(doomed) == {after \in [Proc -> {"none", "runs", "away", "doomed", "dead"}] :
    \A p \in Proc : IF p \in doomed /\ proc[p] = "runs" THEN after[p] \in {"doomed", "dead"}
                    ELSE after[p] = proc[p]}
\* What the helper starts is in the Job as the helper is.  When the last handle of the Job is
\* closed everything in it is killed.
InJob == IF job.joined THEN Proc ELSE {}
Closed(handles) == IF Windows /\ handles = {} THEN InJob ELSE {}

\* Mutant: the answer is the command's own when it has one.
AnsweredByExit(code, flags) ==
    [ok |-> code = "zero" /\ ~flags.failed, code |-> code,
     timedOut |-> flags.timedOut, cancelled |-> flags.cancelled, failed |-> flags.failed]
\* The answer, computed from the flags whatever ended the command.
Answered(code, flags) ==
    [ok |-> code = "zero" /\ ~flags.timedOut /\ ~flags.cancelled /\ ~flags.failed,
     code |-> IF flags.timedOut THEN "124" ELSE IF flags.cancelled THEN "130" ELSE code,
     timedOut |-> flags.timedOut, cancelled |-> flags.cancelled, failed |-> flags.failed]

\* finish: the timers are cleared, the watcher is killed and the control files are removed.
Finish(code, flags) ==
    /\ gate' = [flags EXCEPT !.pc = "done", !.timer = "none"] /\ term' = "done"
    /\ result' = Answered(code, flags)
    /\ job' = [NoJob EXCEPT !.handles = job.handles \ {"watch"}, !.joined = job.joined,
                            !.early = job.early]
    /\ proc' \in Killed(Closed(job.handles \ {"watch"}))
Refuse(code, flags) ==
    /\ gate' = [flags EXCEPT !.pc = "done"] /\ term' = "done"
    /\ result' = Answered(code, flags) /\ UNCHANGED <<job, proc>>

-----------------------------------------------------------------------------
(* Up to the launch.                                                       *)

Ask ==
    /\ At("ask")
    /\ \/ Refuse("126", gate)
       \/ aborted /\ Refuse("130", [gate EXCEPT !.cancelled = TRUE])
       \/ ~aborted /\ ~Windows /\ gate' = [gate EXCEPT !.pc = "spawn"] /\ UNCHANGED <<term, result, job, proc>>
       \/ ~aborted /\ Windows /\ gate' = [gate EXCEPT !.pc = "helper"] /\ UNCHANGED <<term, result, job, proc>>
    /\ UNCHANGED <<platform, holds, exit, aborted, signalled, faults>>

\* ensureWindowsJobHelper: one is built, or the gate ends before the launch.
Helper ==
    /\ At("helper")
    /\ \/ Refuse("125", [gate EXCEPT !.failed = TRUE])
       \/ gate' = [gate EXCEPT !.pc = "spawn"] /\ UNCHANGED <<term, result, job, proc>>
    /\ UNCHANGED <<platform, holds, exit, aborted, signalled, faults>>

\* The Job's readiness is polled, and given up some time; without a Job the timeout runs at once.
\* A call that was aborted meanwhile has its command terminated as soon as it is listened for.
Timers == IF aborted THEN "none" ELSE IF Windows THEN "readiness" ELSE "timeout"
Termination == IF Windows THEN "proof" ELSE "grace"
Spawn ==
    /\ At("spawn")
    /\ proc' = [proc EXCEPT ![Leader] = "runs"] /\ holds' = {Leader}
    /\ job' = IF Windows THEN [job EXCEPT !.watcher = "starts"] ELSE job
    /\ gate' = [gate EXCEPT !.pc = "run", !.timer = Timers, !.cancelled = aborted]
    /\ term' = IF aborted THEN Termination ELSE "none"
    /\ signalled' = (aborted /\ ~Windows)
    /\ UNCHANGED <<platform, exit, aborted, result, faults>>
\* The shell cannot be started: the gate hears of an error instead.
SpawnFails ==
    /\ At("spawn") /\ faults < MaxFaults /\ faults' = faults + 1
    /\ Refuse("other", [gate EXCEPT !.cancelled = aborted])
    /\ UNCHANGED <<platform, holds, exit, aborted, signalled>>

-----------------------------------------------------------------------------
(* The command.                                                            *)

Ends(p) == [proc EXCEPT ![p] = "dead"]
HandlesAfter(p) == IF p = Leader THEN job.handles \ {"run"} ELSE job.handles
\* A process dies, by itself or of a signal; the Job may lose its last handle with it.
Dies(p) ==
    /\ Alive(p) /\ holds' = holds \ {p}
    /\ ~(Windows /\ p = Leader /\ proc[p] = "runs")
    /\ job' = [job EXCEPT !.handles = HandlesAfter(p)]
    /\ LET after == IF p = Leader THEN Closed(HandlesAfter(p)) ELSE {}
       IN  proc' \in {[s EXCEPT ![p] = "dead"] : s \in Killed(after \ {p})}
    /\ \/ p # (IF Windows THEN Command ELSE Leader) /\ UNCHANGED exit
       \/ /\ p = (IF Windows THEN Command ELSE Leader)
          /\ exit' \in (IF proc[p] = "doomed" THEN {"other"} ELSE {"zero", "other"})
    /\ UNCHANGED <<platform, aborted, gate, term, result, signalled, faults>>
\* The helper ends when its command has, or because it failed.
HelperEnds ==
    /\ Windows /\ proc[Leader] = "runs" /\ holds' = holds \ {Leader}
    /\ \/ Gone(Command) /\ UNCHANGED <<exit, faults>>
       \/ /\ proc[Command] = "none" /\ faults < MaxFaults /\ faults' = faults + 1
          /\ exit' = "other"
    /\ LET left == job.handles \ {"run"} IN
       /\ job' = [job EXCEPT !.handles = left]
       /\ proc' \in {[s EXCEPT ![Leader] = "dead"] : s \in Killed(Closed(left) \ {Leader})}
    /\ UNCHANGED <<platform, aborted, gate, term, result, signalled>>

\* A process starts another, with the pipes or without.
Forks(p, q) ==
    /\ proc[p] \in {"runs", "away"} /\ proc[q] = "none" /\ q # Command
    /\ ~Windows \/ p # Leader
    /\ proc' = [proc EXCEPT ![q] = proc[p]]
    /\ \/ p \in holds /\ holds' = holds \cup {q}
       \/ UNCHANGED holds
    /\ UNCHANGED <<platform, exit, aborted, gate, term, result, job, signalled, faults>>
Leaves(p) ==
    /\ ~Windows /\ p # Leader /\ proc[p] = "runs" /\ proc' = [proc EXCEPT ![p] = "away"]
    /\ UNCHANGED <<platform, holds, exit, aborted, gate, term, result, job, signalled, faults>>

-----------------------------------------------------------------------------
(* The native helper and the watcher.                                      *)

\* The Job can be opened by its name before the helper has put itself into it.
MakeJob ==
    /\ Windows /\ proc[Leader] = "runs" /\ "run" \notin job.handles
    /\ job' = [job EXCEPT !.handles = @ \cup {"run"}]
    /\ UNCHANGED <<platform, proc, holds, exit, aborted, gate, term, result, signalled, faults>>
Join ==
    /\ Windows /\ proc[Leader] = "runs" /\ "run" \in job.handles /\ ~job.joined
    /\ job' = [job EXCEPT !.joined = TRUE]
    /\ UNCHANGED <<platform, proc, holds, exit, aborted, gate, term, result, signalled, faults>>
\* The command is launched only when the watcher has opened the Job.
Launchable == job.control
LaunchCommand ==
    /\ Windows /\ proc[Leader] = "runs" /\ proc[Command] = "none"
    /\ job.joined /\ Launchable
    /\ proc' = [proc EXCEPT ![Command] = "runs"] /\ holds' = holds \cup {Command}
    /\ job' = [job EXCEPT !.command = TRUE]
    /\ UNCHANGED <<platform, exit, aborted, gate, term, result, signalled, faults>>
Watcher(from) == job.watcher = from
WatcherOpens ==
    /\ Watcher("starts") /\ job.handles # {}
    /\ job' = [job EXCEPT !.handles = @ \cup {"watch"}, !.control = TRUE, !.watcher = "ready"]
    /\ UNCHANGED <<platform, proc, holds, exit, aborted, gate, term, result, signalled, faults>>
WatcherFails ==
    /\ job.watcher \in {"starts", "ready", "kills"} /\ faults < MaxFaults /\ faults' = faults + 1
    /\ job' = [job EXCEPT !.handles = @ \ {"watch"}, !.watcher = "none",
                          !.answer = IF Watcher("kills") THEN "error" ELSE @]
    /\ proc' \in Killed(Closed(job.handles \ {"watch"}))
    /\ UNCHANGED <<platform, holds, exit, aborted, gate, term, result, signalled>>
\* It gives its handle back before it opens another one for the termination.
WatcherClosesHandle ==
    /\ Watcher("ready") /\ job.request
    /\ job' = [job EXCEPT !.handles = @ \ {"watch"}, !.watcher = "closed"]
    /\ proc' \in Killed(Closed(job.handles \ {"watch"}))
    /\ UNCHANGED <<platform, holds, exit, aborted, gate, term, result, signalled, faults>>
\* The Job is terminated again and again until it is empty.
WatcherTerminates ==
    /\ Watcher("closed") \/ Watcher("kills")
    /\ IF job.handles = {}
       THEN job' = [job EXCEPT !.watcher = "none", !.answer = "error"] /\ UNCHANGED proc
       ELSE /\ job' = [job EXCEPT !.handles = @ \cup {"watch"}, !.watcher = "kills"]
            /\ proc' \in Killed(InJob)
    /\ UNCHANGED <<platform, holds, exit, aborted, gate, term, result, signalled, faults>>
\* QueryInformationJobObject must say that nothing is active in the Job any more.
Emptied == \A p \in InJob : ~Alive(p)
WatcherConfirms ==
    /\ Watcher("kills") /\ Emptied
    /\ job' = [job EXCEPT !.handles = @ \ {"watch"}, !.watcher = "none", !.answer = "ok",
                          !.early = @ \/ Alive(Leader)]
    /\ UNCHANGED <<platform, proc, holds, exit, aborted, gate, term, result, signalled, faults>>

-----------------------------------------------------------------------------
(* The events of the gate.                                                 *)

\* requestTermination: on POSIX the group is signalled at once.
Request(flags) ==
    /\ gate' = [flags EXCEPT !.timer = "none"]
    /\ term' = Termination /\ signalled' = (signalled \/ (~Windows /\ Alive(Leader)))
    /\ UNCHANGED <<platform, proc, holds, exit, aborted, result, job, faults>>

Abort ==
    /\ ~aborted /\ ~At("spawn") /\ aborted' = TRUE
    /\ IF ~At("run") THEN UNCHANGED <<gate, term, signalled>>
       ELSE IF Terminating
       THEN gate' = [gate EXCEPT !.cancelled = TRUE] /\ UNCHANGED <<term, signalled>>
       ELSE /\ gate' = [gate EXCEPT !.cancelled = TRUE] /\ term' = Termination
            /\ signalled' = (signalled \/ (~Windows /\ Alive(Leader)))
    /\ UNCHANGED <<platform, proc, holds, exit, result, job, faults>>

\* A timer that is not cleared fires also while a termination runs, and then only tells.
Timeout ==
    /\ At("run") /\ gate.timer = "timeout"
    /\ IF Terminating
       THEN /\ gate' = [gate EXCEPT !.timedOut = TRUE, !.timer = "none"]
            /\ UNCHANGED <<platform, proc, holds, exit, aborted, term, result, job, signalled, faults>>
       ELSE Request([gate EXCEPT !.timedOut = TRUE])
Arm ==
    /\ At("run") /\ gate.timer = "readiness" /\ job.command
    /\ gate' = [gate EXCEPT !.timer = IF Terminating THEN "none" ELSE "timeout"]
    /\ UNCHANGED <<platform, proc, holds, exit, aborted, term, result, job, signalled, faults>>
NotReady ==
    /\ At("run") /\ gate.timer = "readiness" /\ ~job.command
    /\ IF Terminating
       THEN /\ gate' = [gate EXCEPT !.timedOut = TRUE, !.failed = TRUE, !.timer = "none"]
            /\ UNCHANGED <<platform, proc, holds, exit, aborted, term, result, job, signalled, faults>>
       ELSE Request([gate EXCEPT !.timedOut = TRUE, !.failed = TRUE])

\* "close": the leader is reaped and nobody holds the pipes any more.
ClosedPipes == Gone(Leader) /\ holds = {} /\ gate.close = "none"
\* Mutant: as on Windows, a command that has closed is over.
CloseFinishing ==
    /\ At("run") /\ ClosedPipes
    /\ LET heard == [gate EXCEPT !.close = exit] IN
       \/ Terminating /\ gate' = heard /\ UNCHANGED <<term, result, job, proc>>
       \/ ~Terminating /\ Finish(exit, heard)
    /\ UNCHANGED <<platform, holds, exit, aborted, signalled, faults>>
Close ==
    /\ At("run") /\ ClosedPipes
    /\ LET heard == [gate EXCEPT !.close = exit] IN
       \/ Terminating /\ gate' = heard /\ UNCHANGED <<term, result, job, proc>>
       \/ ~Terminating /\ Windows /\ Finish(exit, heard)
       \/ ~Terminating /\ ~Windows /\ Group = {} /\ Finish(exit, heard)
       \/ /\ ~Terminating /\ ~Windows /\ Group # {}
          /\ gate' = [heard EXCEPT !.timer = "none"] /\ term' = "left-grace"
          /\ UNCHANGED <<result, job, proc>>
    /\ UNCHANGED <<platform, holds, exit, aborted, signalled, faults>>

-----------------------------------------------------------------------------
(* Termination.                                                            *)

\* SIGKILL after the grace, on behalf of the gate or of the close handler.
Grace ==
    /\ term \in {"grace", "left-grace"}
    /\ proc' \in Killed(Group) /\ term' = IF term = "grace" THEN "verify" ELSE "left-verify"
    /\ UNCHANGED <<platform, holds, exit, aborted, gate, result, job, signalled, faults>>
\* The group is looked for until it is gone or the deadline has passed.
Verify ==
    /\ term = "verify" /\ term' = IF Group = {} THEN "drain" ELSE "drain-failed"
    /\ UNCHANGED <<platform, proc, holds, exit, aborted, gate, result, job, signalled, faults>>
VerifyLeft ==
    /\ term = "left-verify"
    /\ Finish(gate.close, [gate EXCEPT !.failed = @ \/ Group # {}])
    /\ UNCHANGED <<platform, holds, exit, aborted, signalled, faults>>

\* The proof is the watcher's; without a Job under control, or without its answer, what can be
\* found is killed and the gate says that it does not know.
Proof ==
    /\ term = "proof" /\ job.control
    /\ job' = [job EXCEPT !.request = TRUE] /\ term' = "watch" /\ signalled' = TRUE
    /\ UNCHANGED <<platform, proc, holds, exit, aborted, gate, result, faults>>
Confirmed ==
    /\ term = "watch" /\ job.answer = "ok" /\ term' = "drain"
    /\ UNCHANGED <<platform, proc, holds, exit, aborted, gate, result, job, signalled, faults>>
Taskkill ==
    /\ \/ term = "proof" /\ ~job.control
       \/ term = "watch" /\ job.answer # "ok"
    /\ \E found \in SUBSET Proc : proc' \in Killed(found \cup {Leader})
    /\ term' = "drain-failed" /\ signalled' = TRUE
    /\ UNCHANGED <<platform, holds, exit, aborted, gate, result, job, faults>>

\* Mutant: for ever.
DrainedOnClose == gate.close # "none"
\* The close of a dead leader is waited for, and not for ever.
Drained == TRUE
Drain ==
    /\ term \in {"drain", "drain-failed"} /\ Drained
    /\ IF term = "drain"
       THEN Finish(IF gate.close = "none" THEN "other" ELSE gate.close, gate)
       ELSE Finish("other", [gate EXCEPT !.failed = TRUE])
    /\ UNCHANGED <<platform, holds, exit, aborted, signalled, faults>>

Gate ==
    \/ Helper \/ Spawn \/ SpawnFails \/ Timeout \/ Arm \/ NotReady \/ Close
    \/ Grace \/ Verify \/ VerifyLeft \/ Proof \/ Confirmed \/ Taskkill \/ Drain
Job == MakeJob \/ Join \/ LaunchCommand \/ WatcherOpens \/ WatcherFails \/ WatcherClosesHandle
           \/ WatcherTerminates \/ WatcherConfirms \/ HelperEnds
Processes == \E p \in Proc : \/ Dies(p) \/ Leaves(p)
                             \/ \E q \in Proc : Forks(p, q)
Next == Ask \/ Abort \/ Gate \/ Job \/ Processes

\* Timers fire and the event loop runs; nothing is asked of the command, of the helper, of the
\* watcher or of the user who is asked for permission.
Spec == Init /\ [][Next]_vars /\ WF_vars(Gate)

-----------------------------------------------------------------------------
(* Properties.                                                             *)

\* docs/operations.md:52, "termination_failed remains explicit when ... unconfirmed cases
\* prevent containment proof": an answer without it leaves nothing of the command behind,
\* however it ended: no process is left in the group, and none runs on in the Job, which has
\* lost its last handle if it was not proved empty; unless the proof came before the helper
\* was in the Job ("early").
NothingLeftBehind == (At("done") /\ ~result.failed /\ ~job.early) =>
    IF Windows THEN \A p \in Proc : proc[p] # "runs" ELSE Group = {}

\* A gate passes only if its command ended by itself with 0: not when that is how it answers a
\* signal of the gate, not after its time was over or its call aborted, whatever the order in
\* which the events are heard.
VerdictTrue == At("done") =>
    /\ result.ok => exit = "zero" /\ ~signalled /\ Gone(Leader)
    /\ result.code = "zero" => result.ok \/ result.failed
    /\ result.timedOut \/ result.cancelled => ~result.ok

\* A command that never ends, a watcher that hangs, processes that cannot be killed or keep the
\* pipes: the gate answers.
GateReturns == At("spawn") ~> At("done")
=============================================================================

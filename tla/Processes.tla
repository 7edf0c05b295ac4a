------------------------------ MODULE Processes ------------------------------
(***************************************************************************)
(* What the plugin does with processes of its machine: the mutex by which  *)
(* they exclude each other and outlive their holders (FilesystemMutex),    *)
(* the shell gate that starts the processes of a command and ends them     *)
(* (ShellGate), and the native helper that the gates of several plugin     *)
(* processes lease (JobHelper).  What a gate knows of the helper is that   *)
(* it has one or has none; the three share no step, and a behaviour is of  *)
(* one of them.                                                            *)
(***************************************************************************)
EXTENDS FilesystemMutex

CONSTANTS
    Platform, Child, Leader, Command, MaxFaults,            \* ShellGate
    Plugin, Dir, NoDir, MaxGates, MaxLives, MaxTampers      \* JobHelper

VARIABLES
    by,
    platform, child, holds, exit, aborted, gate, term, result, object, signalled, faults,
    alive, life, local, given, dir, tampers
gateVars == <<platform, child, holds, exit, aborted, gate, term, result, object, signalled, faults>>
helperVars == <<alive, life, local, given, dir, tampers>>
allvars == <<by, vars, gateVars, helperVars>>

Shell == INSTANCE ShellGate WITH Proc <- Child, proc <- child, job <- object
Helpers == INSTANCE JobHelper WITH Process <- Plugin
ASSUME GateAssumption == Shell!GateAssumption
ASSUME HelperAssumption == Helpers!HelperAssumption

NoGate ==
    /\ platform = NoDir /\ child = NoDir /\ holds = {} /\ exit = NoDir /\ aborted = FALSE
    /\ gate = Shell!Fresh /\ term = NoDir /\ result = NoDir /\ object = NoDir
    /\ signalled = FALSE /\ faults = 0
NoHelper ==
    /\ alive = NoDir /\ life = NoDir /\ local = NoDir
    /\ given = NoDir /\ dir = NoDir /\ tampers = NoDir

ProcessesInit ==
    /\ Init
    /\ \/ by = "mutex" /\ NoGate /\ NoHelper
       \/ by = "gate" /\ Shell!Init /\ NoHelper
       \/ by = "helper" /\ NoGate /\ Helpers!Init
ProcessesNext ==
    \/ by = "mutex" /\ Next /\ UNCHANGED <<by, gateVars, helperVars>>
    \/ by = "gate" /\ Shell!Next /\ UNCHANGED <<by, vars, helperVars>>
    \/ by = "helper" /\ Helpers!Next /\ UNCHANGED <<by, vars, gateVars>>

\* The fairness of the mutex (FairSpec) and of the gate (Shell!Spec): what is synchronous ends,
\* waiters ask again, clocks advance, timers fire.  Nothing is asked of a command, of the native
\* helper, of its watcher or of the user whom the gate asks.
OfMutex(action) == by = "mutex" /\ action /\ UNCHANGED <<by, gateVars, helperVars>>
ProcessesSpec ==
    /\ ProcessesInit /\ [][ProcessesNext]_allvars
    /\ \A p \in Proc : WF_allvars(OfMutex(Operate(p))) /\ WF_allvars(OfMutex(StartAcquire(p)))
    /\ WF_allvars(OfMutex(MutexExpires)) /\ WF_allvars(OfMutex(ClaimExpires))
    /\ WF_allvars(by = "gate" /\ Shell!Gate /\ UNCHANGED <<by, vars, helperVars>>)

-----------------------------------------------------------------------------
\* executeShellGate leaves nothing of its command behind without saying so.
NothingLeftBehind == by = "gate" => Shell!NothingLeftBehind
\* executeShellGate reports no more than its command did.
VerdictTrue == by = "gate" => Shell!VerdictTrue
\* executeShellGate answers, whatever the command, the helper and the watcher do.
GateReturns == (by = "gate" /\ Shell!At("spawn")) ~> Shell!At("done")
\* docs/operations.md:56-63: the helper's files are deleted only when nobody uses them, and
\* then are not forgotten (scheduleWindowsHelperIdleCleanup, cleanupWindowsShellHelpers).
HelperTracked == by = "helper" => Helpers!HelperStands /\ Helpers!IdleIsScheduled
=============================================================================

-------------------------- MODULE ManagerReleases --------------------------
(***************************************************************************)
(* The commands of the release manager (scripts/manager-core.ts): install, *)
(* update, rollback, uninstall, `doctor --repair-journal` and              *)
(* `doctor --ack-restart`.  A release is materialised under a reserved     *)
(* directory, an environment may be prepared for its Excel pack, the       *)
(* config files and the agent are planned and replaced, and a receipt      *)
(* says what the manager owns.                                             *)
(*                                                                         *)
(* The manager's lock admits one command at a time; users write to the     *)
(* files, the release and the environment whenever they like, and the      *)
(* command may die at every step.  How one transaction moves its files is  *)
(* ManagerTransaction's; here it writes them all, then the receipt, then   *)
(* forgets its journal.  One agent stands for the five, one environment    *)
(* root for all, and a staging tree, private and randomly named, is left   *)
(* out.  Config files are the plugins they register and the mcp entry.     *)
(***************************************************************************)
EXTENDS Integers, Sequences, SequencesExt

CONSTANTS
    Release,         \* versions, in order: a subset of Nat
    Bundle,          \* the bytes of the agent in each release
    Descends,        \* <<a, b>>: the commit of b descends from the commit of a
    Compatible,      \* <<a, b>>: their declarations accept each other's durable state
    Excel,           \* releases with the Excel pack
    Options,         \* what a user may ask of a command
    MaxGenerations,  \* bound: generations a receipt retains (16 in the code)
    MaxCommands, MaxUserEdits, MaxStops, MaxEnvs  \* bounds

VARIABLES
    receipt,  \* the external receipt
    tree,     \* the directory of each release
    envs,     \* environments of the Excel pack, by number: is it as it was built?
    live,     \* the files the manager and the user share
    journal,  \* the pending transaction, or NoJournal
    run,      \* the command that runs
    moved,    \* files users wrote to since the plan of the transaction was made
    touched,  \* ghost: what users changed since the manager last committed it
    used      \* bounds

vars == <<receipt, tree, envs, live, journal, run, moved, touched, used>>

None == 0          \* no release, no environment, no mcp entry
Custom == -1       \* an mcp entry that users wrote
Source == -2       \* the plugin specification of a checkout
NoReceipt == [exists |-> FALSE, installed |-> FALSE, active |-> None, gens |-> <<>>,
              env |-> [r \in Release |-> None], owned |-> "nobody", pending |-> FALSE]
NoJournal == [pc |-> "none"]
Idle == [pc |-> "idle"]
Entry == {None, Custom} \cup 1..MaxEnvs
Bytes == {"none", "custom"} \cup {Bundle[r] : r \in Release}

Init ==
    /\ receipt = NoReceipt /\ journal = NoJournal /\ run = Idle
    /\ tree = [r \in Release |-> "absent"] /\ envs = <<>>
    /\ \E plugin \in {{}, {Source}}, agent \in Bytes, mcp \in {None, Custom} :
          live = [server |-> plugin, tui |-> plugin, mcp |-> mcp, agent |-> agent]
    /\ moved = {} /\ touched = {} /\ used = [command |-> 0, edit |-> 0, stop |-> 0]

-----------------------------------------------------------------------------
(* Planning.                                                               *)

Gens == ToSet(receipt.gens)
Prior == IF receipt.installed THEN receipt.env[receipt.active] ELSE None
\* The agent on disk is, byte for byte, what the receipt says the manager wrote.
Mine == receipt.owned \notin {"nobody", "missing", "custom"} /\ live.agent = receipt.owned

Known(o, target) ==
    Gens \cup (IF target = None THEN {} ELSE {target}) \cup (IF o.source THEN {Source} ELSE {})

\* configPlans refuses registrations it cannot account for.
Registrable(o, target) == \A plugins \in {live.server, live.tui} :
    LET known == Known(o, target) IN
    /\ plugins \cap Release \subseteq known
    /\ IF receipt.installed THEN receipt.active \in plugins
       ELSE \A s, t \in plugins \cap known : s = t
Registered(plugins, o, target) ==
    (plugins \ Known(o, target)) \cup (IF target = None THEN {} ELSE {target})

\* planManagedMcpConfig: an entry that is not the receipt's blocks its replacement, and stays.
EntryAllows(env) == env # None => live.mcp = None \/ (Prior # None /\ live.mcp = Prior)
EntryAfter(env) ==
    IF env # None THEN env
    ELSE IF Prior # None /\ live.mcp = Prior THEN None ELSE live.mcp

\* planAgents: the bytes and the ownership the agent gets.
Adopted(o, target) ==
    ~receipt.exists /\ o.source /\ Source \in live.server \cap live.tui
    /\ live.agent = Bundle[target]
MayOwn(o, target) == o.policy = "force" \/ (o.policy = "managed" /\ (Mine \/ Adopted(o, target)))
MayUpdate(o) ==
    \/ o.policy = "force"
    \/ o.policy = "managed" /\ (Mine \/ (o.op # "rollback" /\ live.agent = "none"))
Kept(owned) == [agent |-> live.agent,
                owned |-> IF live.agent = "none" THEN "missing" ELSE owned]
AgentAfter(o, target) ==
    IF o.op = "uninstall"
    THEN IF o.remove /\ Mine THEN [agent |-> "none", owned |-> "missing"]
         ELSE Kept(IF Mine THEN live.agent ELSE "custom")
    ELSE IF live.agent = Bundle[target]
    THEN Kept(IF MayOwn(o, target) THEN Bundle[target] ELSE "custom")
    ELSE IF MayUpdate(o) THEN [agent |-> Bundle[target], owned |-> Bundle[target]]
    ELSE Kept("custom")

\* The retained generations but one; each is retained once.
Others(g) ==
    IF g \in Gens THEN RemoveAt(receipt.gens, CHOOSE i \in DOMAIN receipt.gens : receipt.gens[i] = g)
    ELSE receipt.gens
\* activatedGenerations: the target is the last of the retained ones.
Retained(target) ==
    LET all == Append(Others(target), target)
        n == Len(all)
    IN  IF n > MaxGenerations THEN SubSeq(all, n - MaxGenerations + 1, n) ELSE all

\* buildReceipt; an uninstalled receipt keeps its generations.
Planned(o, target, env, owned) ==
    IF o.op = "uninstall"
    THEN [receipt EXCEPT !.installed = FALSE, !.active = None, !.owned = owned, !.pending = TRUE]
    ELSE [exists |-> TRUE, installed |-> TRUE, active |-> target, gens |-> Retained(target),
          env |-> [receipt.env EXCEPT ![target] = env], owned |-> owned, pending |-> TRUE]

-----------------------------------------------------------------------------
(* What must be as it was recorded.                                        *)

Sound(env) == env # None => envs[env]
\* validateRetainedActiveGeneration
ValidActive ==
    /\ tree[receipt.active] = "whole" /\ Sound(Prior)
    /\ receipt.active \in live.server \cap live.tui
    /\ Prior # None => live.mcp = Prior
    /\ receipt.owned \notin {"nobody", "missing", "custom"} => Mine
\* selectRollbackGeneration and what rollbackManager checks of its choice.
Restorable(r) ==
    /\ tree[r] = "whole" /\ Sound(receipt.env[r])
    /\ <<receipt.active, r>> \in Compatible
\* Without a name, rollback takes the latest generation that is not active.
Latest == Last(Others(receipt.active))

\* excelAssets: what a release must carry for its environment to be built.
Packed(r) == r \in Excel
Wanted(o) == o.excel = "on" \/ (o.excel = "keep" /\ Prior # None)
Flagged(o) == o.excel # "keep" \/ o.policy # "managed"

-----------------------------------------------------------------------------
(* Commands.                                                               *)

Spent(what) == used' = [used EXCEPT ![what] = @ + 1]
At(pc) == run.pc = pc
Pending == journal # NoJournal
Goes(pc) == run' = [run EXCEPT !.pc = pc]
Ends == run' = Idle

Command ==
    /\ At("idle") /\ ~Pending /\ used.command < MaxCommands /\ Spent("command")
    /\ UNCHANGED <<receipt, tree, envs, live, journal, moved, touched>>
Launch(o, pc, target, env) ==
    run' = [pc |-> pc, o |-> o, target |-> target, env |-> env]

\* stageRelease: the release that the tag or the checkout names; an update goes to a descendant.
Staged(o, r) ==
    o.op = "update" =>
        receipt.installed /\ (receipt.active = r \/ <<receipt.active, r>> \in Descends)
InstallOrUpdate(o, r) ==
    /\ Command /\ o.op \in {"install", "update"} /\ Staged(o, r)
    /\ receipt.installed /\ o.op = "install" => receipt.active = r
    /\ receipt.installed /\ receipt.active = r => ValidActive /\ Flagged(o)
    /\ Launch(o, IF receipt.active = r \/ o.dry THEN "excel" ELSE "promote", r, None)
Rollback(o, r) ==
    /\ Command /\ o.op = "rollback" /\ receipt.installed /\ o.policy # "force"
    /\ r \in Gens /\ (o.latest => r # receipt.active /\ r = Latest) /\ Restorable(r)
    /\ Launch(o, "plan", r, receipt.env[r])
Uninstall(o) ==
    /\ Command /\ o.op = "uninstall" /\ receipt.installed
    /\ Launch(o, "plan", None, None)

\* promoteStaged: the name is reserved by an exclusive mkdir; what is there is reused when it
\* is the same release, and never replaced.
Reserve ==
    /\ At("promote") /\ tree[run.target] = "absent"
    /\ tree' = [tree EXCEPT ![run.target] = "partial"] /\ Goes("materialise")
    /\ UNCHANGED <<receipt, envs, live, journal, moved, touched, used>>
Reuse ==
    /\ At("promote") /\ tree[run.target] # "absent"
    /\ IF tree[run.target] = "whole" THEN Goes("excel") ELSE Ends
    /\ UNCHANGED <<receipt, tree, envs, live, journal, moved, touched, used>>
Materialise ==
    /\ At("materialise") /\ Goes("excel")
    /\ tree' = [tree EXCEPT ![run.target] = "whole"]
    /\ UNCHANGED <<receipt, envs, live, journal, moved, touched, used>>
\* cleanupCreatedGeneration takes back what it created, unless something foreign is in it.
MaterialiseFails ==
    /\ At("materialise") /\ used.stop < MaxStops /\ Spent("stop") /\ Ends
    /\ \E left \in {"absent", "partial"} : tree' = [tree EXCEPT ![run.target] = left]
    /\ UNCHANGED <<receipt, envs, live, journal, moved, touched>>

\* prepareExcelCapability builds a new environment unless the active one is kept; one that
\* fails its check is left behind and named by nothing.
Preserved == receipt.active = run.target /\ Wanted(run.o) /\ Prior # None
Prepare ==
    /\ At("excel")
    /\ \/ ~Wanted(run.o) /\ run' = [run EXCEPT !.pc = "plan"] /\ UNCHANGED envs
       \/ Preserved /\ run' = [run EXCEPT !.pc = "plan", !.env = Prior] /\ UNCHANGED envs
       \/ /\ Wanted(run.o) /\ ~Preserved /\ Packed(run.target) /\ Len(envs) < MaxEnvs
          /\ \/ envs' = Append(envs, TRUE) /\ run' = [run EXCEPT !.pc = "plan", !.env = Len(envs) + 1]
             \/ envs' = Append(envs, FALSE) /\ Ends
       \/ Wanted(run.o) /\ ~Preserved /\ ~Packed(run.target) /\ Ends /\ UNCHANGED envs
    /\ UNCHANGED <<receipt, tree, live, journal, moved, touched, used>>

Plan ==
    /\ At("plan") /\ moved' = {}
    /\ LET o == run.o
           t == run.target
           agent == AgentAfter(o, t)
           after == [server |-> Registered(live.server, o, t), tui |-> Registered(live.tui, o, t),
                     mcp |-> EntryAfter(run.env), agent |-> agent.agent]
           next == Planned(o, t, run.env, agent.owned)
           idempotent == /\ o.op \in {"install", "update"} /\ receipt.active = t
                         /\ after = live /\ next.owned = receipt.owned /\ next.env = receipt.env
       IN  IF Registrable(o, t) /\ EntryAllows(run.env) /\ ~idempotent /\ ~o.dry
           THEN run' = [pc |-> "commit", o |-> o, before |-> live, after |-> after, receipt |-> next]
           ELSE Ends
    /\ UNCHANGED <<receipt, tree, envs, live, journal, touched, used>>

\* commitTransaction, told by ManagerTransaction: every file planned from must still be there,
\* and a file that the transaction replaces can be taken back unless a user wrote to it.
Fields == [server |-> {"server", "mcp"}, tui |-> {"tui"}, agent |-> {"agent"}]
Replaced(t) == {f \in DOMAIN Fields : \E x \in Fields[f] : t.before[x] # t.after[x]}
TakenBack(t) == [x \in DOMAIN live |->
    IF \E f \in Replaced(t) : x \in Fields[f] THEN t.before[x] ELSE live[x]]
\* Mutant: only the config files are compared again.
ConfigsUndisturbed == moved \cap {"server", "tui"} = {}
Undisturbed == moved = {}

Commit ==
    /\ At("commit")
    /\ IF Undisturbed
       THEN live' = run.after /\ journal' = [run EXCEPT !.pc = "open"] /\ Goes("receipt")
       ELSE Ends /\ UNCHANGED <<live, journal>>
    /\ UNCHANGED <<receipt, tree, envs, moved, touched, used>>
Publish ==
    /\ At("receipt") /\ Undisturbed
    /\ receipt' = run.receipt /\ touched' = touched \cap {"tree", "env"} /\ Goes("forget")
    /\ UNCHANGED <<tree, envs, live, journal, moved, used>>
Undo ==
    /\ At("receipt") /\ Ends
    /\ IF Undisturbed THEN used.stop < MaxStops /\ Spent("stop") ELSE UNCHANGED used
    /\ IF moved \cap Replaced(journal) = {} THEN live' = TakenBack(journal) /\ journal' = NoJournal
       ELSE UNCHANGED <<live, journal>>
    /\ UNCHANGED <<receipt, tree, envs, moved, touched>>
Forget ==
    /\ At("forget") /\ journal' = NoJournal /\ Ends
    /\ UNCHANGED <<receipt, tree, envs, live, moved, touched, used>>

Die ==
    /\ ~At("idle") /\ used.stop < MaxStops /\ Spent("stop") /\ Ends
    /\ UNCHANGED <<receipt, tree, envs, live, journal, moved, touched>>

\* Mutant: a repair always goes back.
NeverCommitted == FALSE
\* doctor --repair-journal
Committed == receipt = journal.receipt
RepairJournal ==
    /\ At("idle") /\ Pending /\ moved \cap Replaced(journal) = {}
    /\ live' = IF Committed THEN live ELSE TakenBack(journal)
    /\ journal' = NoJournal
    /\ UNCHANGED <<receipt, tree, envs, run, moved, touched, used>>
\* doctor --ack-restart
Acknowledge ==
    /\ At("idle") /\ ~Pending /\ receipt.pending
    /\ receipt' = [receipt EXCEPT !.pending = FALSE]
    /\ UNCHANGED <<tree, envs, live, journal, run, moved, touched, used>>

-----------------------------------------------------------------------------
(* Users.                                                                  *)

Edits(what, file) ==
    /\ used.edit < MaxUserEdits /\ Spent("edit") /\ touched' = touched \cup {what}
    /\ moved' = IF Pending \/ At("commit") THEN moved \cup file ELSE moved
    /\ UNCHANGED <<receipt, journal, run>>
EditFile ==
    /\ UNCHANGED <<tree, envs>>
    /\ \/ \E b \in Bytes \ {live.agent} : Edits("agent", {"agent"}) /\ live' = [live EXCEPT !.agent = b]
       \/ \E e \in {None, Custom} \ {live.mcp} : Edits("mcp", {"server"}) /\ live' = [live EXCEPT !.mcp = e]
       \/ live.server # {} /\ Edits("server", {"server"}) /\ live' = [live EXCEPT !.server = {}]
Spoil ==
    /\ UNCHANGED live
    /\ \/ \E r \in Release : tree[r] = "whole" /\ Edits("tree", {})
             /\ tree' = [tree EXCEPT ![r] = "drifted"] /\ UNCHANGED envs
       \/ \E e \in DOMAIN envs : envs[e] /\ Edits("env", {})
             /\ envs' = [envs EXCEPT ![e] = FALSE] /\ UNCHANGED tree

Next ==
    \/ \E o \in Options : \/ \E r \in Release : InstallOrUpdate(o, r) \/ Rollback(o, r)
                          \/ Uninstall(o)
    \/ Reserve \/ Reuse \/ Materialise \/ MaterialiseFails \/ Prepare \/ Plan
    \/ Commit \/ Publish \/ Undo \/ Forget \/ Die \/ RepairJournal \/ Acknowledge
    \/ EditFile \/ Spoil

Spec == Init /\ [][Next]_vars

-----------------------------------------------------------------------------
(* Properties.                                                             *)

\* What the receipt says is so, after every command, repair and crash, except where users
\* changed it since the manager last committed: the active release is complete and is the one
\* plugin of the manager in both configs, the mcp entry is that of its environment, a managed
\* agent has the recorded bytes; uninstalled, none of the manager's registrations is left
\* ("the receipt commits last", docs/upgrades.md:212).
Untouched(what) == what \notin touched
Truth ==
    /\ \A f \in {"server", "tui"} : Untouched("server") =>
          live[f] \cap (Gens \cup {receipt.active}) =
              (IF receipt.installed THEN {receipt.active} ELSE {})
    /\ Untouched("mcp") => IF Prior # None THEN live.mcp = Prior ELSE live.mcp \in {None, Custom}
    /\ Untouched("agent") =>
          IF receipt.owned = "missing" THEN live.agent = "none"
          ELSE receipt.owned \notin {"nobody", "custom"} => Mine
    /\ receipt.installed => receipt.active \in Gens
ReceiptIsTrue == receipt.exists /\ ~Pending => Truth

\* "Old releases are retained" (docs/upgrades.md:32): every generation a receipt names is
\* complete and so is the environment it was activated with, so that rollback can restore it.
GenerationsStand == \A g \in Gens :
    /\ Untouched("tree") => tree[g] = "whole"
    /\ Untouched("env") => Sound(receipt.env[g])

\* "Only an exact receipt-managed mcp.alg_excel may be updated or removed" (DESIGN.md:408), and
\* an agent only when it has the bytes the manager recorded, is missing, or force was asked: a
\* user's bytes survive, also those written after the plan was made.
TakesOnly ==
    At("commit") /\ run'.pc = "receipt" =>
        /\ live'.mcp # live.mcp => live.mcp \in {None, Prior}
        /\ live'.agent # live.agent => live.agent = "none" \/ Mine \/ run.o.policy = "force"
=============================================================================

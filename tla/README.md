# Opencode ALG: a TLA+ model

ALG is an OpenCode plugin that plans a graph of agent tasks, runs it durably
through child sessions, and keeps what it learned: environment memory, session
memory and skills. This directory models the parts of it whose correctness depends
on the order of steps (locks, commits, crashes, retries, concurrent callers),
checks them with TLC and proves the most important results with TLAPS.

`PROJECT.json` is the index: components, runs, the mutants each property is
tested against, the source lines each definition stands for, hazards, findings
and theorems. A run `M_x.cfg` is `tlc -config M_x.cfg M`; a `*_proofs` module is
checked by `tlapm`.

## 1. Inventory

| component (source) | state | operations | what is hard | what makes it correct |
|---|---|---|---|---|
| executor, run state (`executor.ts`, `graph.ts`, `schemas.ts`) | `progress.json`: node states, attempts, budgets, feedback | run, resume, close; reserve, launch, link, settle, route, skip | siblings that settle in any order, crash at every await, repair against limits | saved states are legal, launches are charged and never repeated, inputs are accepted, every call returns |
| run store (`store.ts`, `ownership.ts`) | manifest, backup, `execution.lock`, guard, mirror lock | save (compare, stage, fence, rename), lease acquire/renew/release, load with reconciliation | a lease is taken over from a live holder; compare and rename are two operations | no committed change is lost, a fenced commit has the lease |
| objects of a run (`store.ts`, `persistence.ts`) | content-addressed records and archives of attempts, mirrors under fixed names | hydrate, write objects, publish mirrors, recover from the backup, repair mirrors | a save stops between any two of its files; earlier versions refer to the mirrors; files are damaged | whatever the manifest or its backup leads to stays whole |
| filesystem mutex (`filesystem-mutex.ts`) | record file, claim file | acquire, replace a dead holder, renew, release | each file operation interleaves; dead processes | one holder; a live record is nobody else's to remove |
| sessions (`sessions.ts`) | child sessions, sidecar files | create, journal, prompt, abort | crash between create and journal | no prompted session is unknown |
| tools (`tools.ts`) | none of their own | plan, criteria, run, resume, close, show | stale copies of the run | work on what is committed |
| owner index (`owner-index.ts`, `store.ts:515-616`) | runs per owner session | refresh, coalesce, rebuild | best-effort refresh; directory stamps | it converges to the run files |
| environment memory (`environment-memory/engine.ts`) | SQLite: events, entities, relations, receipts, a cache | append, query, revoke, snapshot, restore, replay | repeated appends, cached reads, scope and lifetime of relations | the projection is the history, retries are answered |
| replication (`replication.ts`, `object-store.ts`) | immutable objects, a manifest replaced by compare-and-swap | replicate, checkpoint, restore | concurrent writers, diverged histories, lost answers | the remote is an append-only log that can always be restored |
| session memory (`session-memory/`) | checkpoint per session, registry, delivery journal | begin task, bind, allow, revoke, guarded execution, deliver | reads before a lock, overlapping calls and hooks | allowances are used once, failures block exactly as long as they hold, no delivery is claimed that did not happen |
| skill evolution (`skill-evolution-*.ts`) | audit ledger, claims, candidates, coverage index, plan record, transaction journals | enqueue, begin, complete, fail, review, promote, roll back, recover; start, resume, cancel a plan | leases of background work, several files under one lock, recovery from a journal while the user edits | the user's text is never lost, a turn is reviewed once and by one reviewer, every paid call is charged |
| shell gate (`shell.ts`) | a process tree, a Windows Job with its watcher, a compiled helper | run, time out, abort, terminate; build, lease, idle, delete the helper | exit against time-out, processes that cannot be killed or hold pipes, reused pids | one outcome, nothing left running, the gate answers |
| settings and configuration (`models.ts`, `config-editor.ts`) | configuration files, hidden claim and prepared links | compare-and-swap of several files | partial failure and rollback while others edit | whole or untouched, reported truly |
| manager (`scripts/manager-core.ts`) | installed files, receipt, append-only journal | install, update, roll back, repair | crash between journal, files and receipt, in the rollback and in the repair too | the receipt speaks of what is there, a stopped transaction is repairable, foreign files are not touched |
| run cards, terminal views (`run-cards.ts`, `tui-live.ts`, `tui-runs.ts`) | cards with a sidecar file, the controller of one run, the browser of attempts | prime, save, settle; select, read, refresh, navigate | updates nobody waits for, late answers, reads that go on after their dialog | cards follow and end, what is shown is of the selected session, navigation goes to whole recorded attempts |
| diagnostics, catalogues, templates, budgets | views | read | stale reads | outside of this project |

The executor calls the store for every save (under the lease that `alg_run` or
`alg_resume` took) and the sessions for every child; the store and both memories
use the filesystem mutex; session memory wraps the executor (`executeWithMemory`)
and reads the committed run; replication reads the event log of the environment
memory. All share files, none shares memory across processes; inside a process
calls and hooks interleave at every `await`.

## 2. Modules

| module | models | composed of |
|---|---|---|
| `RunState` | a run's nodes and attempts; the operators of `graph.ts`, the rules of `schemas.ts`, the transitions that executor functions make | |
| `Executor` | `executeRun` and its callers, one action per stretch between awaits | extends `RunState` |
| `Lock` | the promise of a mutex: at most one holder | |
| `FilesystemMutex` | the record and claim files, one action per file operation | refines `Lock` |
| `RunStore` | commits, backup and lease of one run | uses guard and mirror as the `Lock` that `FilesystemMutex` implements |
| `RemoteLog` | the promise of replication: a log that is only extended | |
| `EnvironmentReplication` | replicate, checkpoint, restore | refines `RemoteLog` |
| `EnvironmentMemory` | append, projection, revocation, snapshot, replay, cached reads | the event log that `EnvironmentReplication` takes as data |
| `SessionMemory` | checkpoint, guarded executions, allowances, deliveries | the run is reduced to revision, outcome and lease |
| `Memories` | what is committed by compare-and-swap: the manifest of a run or either memory | extends `RunStore`, an instance of `EnvironmentMemory` and three of `SessionMemory` (its calls, overlapping calls, its journal) |
| `SkillPromotion` | candidates published into the skill file and rolled back, under a journal | |
| `SkillReview` | who reviews a turn: live audits and a historical plan | |
| `HistoricalPlan` | one confirmed plan from its chunks to its candidate | claims of turns are `SkillReview`'s |
| `SkillEvolution` | one of the three | instances of them |
| `ShellGate` | one command from its permission to the answer | |
| `JobHelper` | the compiled Windows helper in several plugin processes | |
| `Processes` | the mutex, a gate or the helper | extends `FilesystemMutex`, instances of the others |
| `RunObjects` | the files a run leads to, through loads and saves | the mirror lock is `RunStore`'s |
| `OwnerIndex` | the runs of a session, refreshed after every save | |
| `RunCards` | cards of the calls of a run | |
| `LiveView` | `/alg-live` and `/alg-runs` | |
| `RunProjections` | one of the four | instances of them |
| `LiveFiles` | the files that a command replaces together, their claim and prepared links, what others do to them; the promises of every such command | |
| `ManagerTransaction` | `commitTransaction` under its journal and `recoverJournal` | extends `LiveFiles` |
| `ConfigCommit` | `commitFileCasPlans`, which has no journal | extends `LiveFiles` |
| `FileTransactions` | an installation by either of them | instances of both |
| `ManagerReleases` | every command of the manager that changes state; a transaction is one step or none | its transaction is `ManagerTransaction` |
| `Installation` | an installation at either grain | extends `FileTransactions`, an instance of `ManagerReleases` |
| `SessionMemory_proofs` | the steps of one session | extends `SessionMemory` |
| `Memories_proofs` | theorems of `Memories` | extends it, three instances of `SessionMemory_proofs` |
| other `*_proofs` | theorems of the module they extend | `Executor_proofs` has the lemmas about `RunState` too |
| `MC*` | instances for TLC | |

Modules that share files but no step (`Memories`, `SkillEvolution`, `Processes`,
`RunProjections`, `Installation`) are joined by a variable `by` that says whose
behaviour it is; the variables of the others keep one value. Each starts from files
the others have finished with, so one at a time shows every state of it, and a property
`X!P` of a part is stated of the whole as `by = "x" => X!P`.

### RunState and Executor

`mem` is the `run` object of a call and `disk` the committed manifest; `Save`
is every `save`, which commits what the schema accepts; `SaveRefused` is one that it does not,
and ends the call. There is one such state, the route of a checker that reopens a node whose
attempt was interrupted (`ReopensInterrupted`, finding `executor_interrupted`). `phase` says where `executeRun` waits, `child[n]` where
`runOneNode` of node `n` waits. Since JavaScript is not preempted, everything
between two awaits is one action, and a save, which may wait for a lock, is a
step of its own in which siblings run. `Launch` and its successors carry every
outcome a child may have (accepted, rejected, malformed, SDK error, timed out
gate, thrown). A node's history is the sequence of its attempts with outcomes;
prompts, outputs, artifacts and criteria are left out. `sidecars` are the
session files written between creating and prompting a child.

### FilesystemMutex

A token is the process that wrote it. `seen` is the record read before the
second look that a takeover requires. `MayDie` names who may crash;
`DieInClaim` says whether a crash may hit the owner of the claim file, and
`Survivors` how many processes such a crash may leave. The proofs assume
`~DieInClaim`, the run one survivor, because with two the results are false
(finding `mutex_claim`): two survivors may break the same dead claim.

### RunStore

`manifest`, `backup` and `staged` are the files of a commit, `lease` the
execution lock with its expiry, `copy` what a client loaded. A `Version` is a
revision with the set of changes it contains, which is what "lost" is defined by.

### EnvironmentReplication

A cursor is the history it stands for, because every event carries the hash of
its predecessor. `call[e]` is one `replicateEnvironmentMemory`, with the cursors
it read, the manifest it read and the one it will publish.

### EnvironmentMemory

`db[d]` holds the tables of one database: `log` is `event_log` with
`idempotency_history` (receipts survive a snapshot, events before `base` do
not), `type` and `revoked` are `identities`, `record` is `entities` and
`relations`. Every call is one synchronous transaction and so one action; what
interleaves are connections and the callers that ask again because an answer
was lost (`Answered`). `cache` and `observed` belong to a connection. A scope is
its owner or `Shared`, a record's lifetime is whether it is `brief`, and `Expire`
lets the brief ones expire once.

### SessionMemory

`head` is the checkpoint, replaced by compare-and-swap; `call[c]` is one
`executeWithMemory` in mode `assist`; `hook[q]` is one `ContextDelivery.replace`.
A locked operation that throws does so before or after its effect (`Fails`).
`spent` counts the executions that took the lease of the run under an allowance,
`published` the texts that reached a prompt: both are history variables. Calls of a session may
overlap. Two may then consume one allowance, since preflight is the only look at it; but each tool call
has `loaded` the run before, and executes only if its first save commits over that revision (`Takes`), so
the second is refused. `AllowanceOnce`, `ConsumedIsGone` and `ConsumeStep` are therefore promised to any
calls. A failure cites the run as it is committed when it is classified, so the attempts of
overlapping calls may be recorded in another order than they ran in, or cite one another's revision:
then an older failure may be the newest record, so that a repetition goes through, or a revision that
has not failed is blocked. Only `RepeatBlocked` is for calls that follow one another (`NoOverlap`).

### LiveFiles, ManagerTransaction and ConfigCommit

A slot is a planned file, slot 0 the receipt (the direct installer has none and
takes it for one more file). `kind` is what its plan does: replace, create,
delete, or only read, for the read set that every check covers. `public` is the
inode under the public name: the one the plan was made from, the prepared one, or
a foreign one; a user can replace or remove a file, or write into it, which makes
the inode `spoiled`: the right identity with the wrong bytes. `todo` is what the
running command still has to do, a sequence of operations laid out from the plan
in the order of the code (`Script`); it is what a crash forgets. Each action is one
link or unlink together with the checks in front of it (`Checked`), so an editor
gets in between any two of them, except between the last check and the unlink
after it, which docs/upgrades.md:248-251 disclaims. `Refuse` is a check that
fails, `Fault` an operation that does, `JournalFault` a revision that cannot be
published, `Undo` and `RollBack` are the two `catch` blocks. A roll-back of the installer gives
back the files that count as changed (`mutated`) when the `catch` finds them: a check refused in front of
an unlink leaves its file out, one repeated after `record.mutated` is set does not. `journal` is the
sequence of revisions; of their contents only the recorded claims matter to a
repair (`Ambiguous`), and the data file of a revision appears before its anchor
and goes after it (`half`).

### ManagerReleases

`receipt` is the external receipt with its generations, `tree[r]` the directory of a
release, `envs` the environments built for the Excel pack, `live` the configuration and
agent files that the manager shares with users, `run` the command with its step. A
command may die at every step, users write between any two; the checks a transaction
makes of its read set are `moved`, and `touched` remembers what users changed, since
the manager answers only for the rest. One agent stands for five, one environment root
for all; a staging tree is private and left out; a transaction writes its files at
once, because `ManagerTransaction` has its steps. `--source` adopts a checkout only when
the bytes are exactly its own and both configurations name it.

### RunObjects

One node. A record stands for the complete data of one attempt (its output and its
detail), an archive for the attempts `progress.json` does not show; a digest is the
content, so a content-addressed file that is not `Bad` is right. A legacy run starts with
references to the fixed names, which are mirrors ever since. Loads and saves run under the
mirror mutex, one file operation per action; a process that dies leaves its place free.
A save memoises what it has read, so damage after that may be committed: `hurt` are the names
damaged from outside, and `before` those that were when the save began and have not been since, for
which alone it answers. Nothing is collected as garbage. A manifest
that does not parse is renamed away in one step while nobody has the mutex; `loadRun` may also do so before it
takes it (`store.ts:2935`), which is left out.

### OwnerIndex

`run` are the committed runs, `index[o]` the index file of a session with a stamp per
version, `local[p]` what a process keeps: refreshes to do (`todo`) and under way
(`waiting`), the memo by which a save that changes nothing is skipped, the candidates
cached by stamp, and a scan that rebuilds. `untold` is a ghost: what a refresh that was given
up, or died, has not told. A failure keeps the memo or, under the mutex, drops it. The stamp of the runs directory with its two seconds of doubt, the
age limit of five minutes and the cut at 64 entries are left out; the first two only
shorten a wrong answer.

### RunCards and LiveView

A card belongs to the call that made it. Its updates are a `chain`, delivered one after
the other whenever the host takes them; it may refuse. The `sidecar` lists what is shown as
running and is what the next call closes (`lost` is a ghost: what refusals and deaths took from it, and
what another open call will overwrite there). Any of the calling processes may die.

`LiveView` has one of two views. `/alg-live`: `view` is what is published, `op` the read
in flight with what it is for, `ctl` the generation, the refresh timer and whether a read
timed out. `/alg-runs`: `browse` is its dialog with the run as read, the records that are being
read (`opening`), those whose dialog has closed meanwhile (`left`) and those that failed
for the life of the dialog (`bad`, the cache of rejected promises); `torn` are records damaged on disk.
Attempts that progress.json does not show need their archive first.

### SkillPromotion, SkillReview and HistoricalPlan

`SkillPromotion`: names lead to inodes (`file`), since hard links and their identity are
what recovery decides by; a transaction is a journal and a list of links and
unlinks (`todo`), each an action that may fail (`bad`) or be the last of its process; the user
replaces the target, or writes into it, at any time. A file that he puts in
the place of the one that was found, between the last check and the unlink, is not promised (`Exposed`): nothing in the
code protects it. `holder` is the mutation lock, which a dead holder gives up.

`SkillReview`: `ledger`, `claims`, candidates (`live`, `mined`), coverage and plan are
separate files; a write of two is two writes with a death between (`Saves`,
`SavesLedgerFirst`, in the order of the code). A claim has a token known to its process;
leases lapse at any time (`fresh`, `lease.valid`). `audits` and `seen` count
what was really begun and reviewed. A reservation fences what dead auditors left and records the
candidates they had published, turn by turn, but no candidate once it has changed the ledger (`Fenced`,
where `first` is the turn that changes it first: the code has `||=`). A turn that is passed over stays open and is
closed as unchanged by the coverage (finding `review_fenced`), which is why `CandidateRecorded` promises the
record only of turns that the plan has not covered.

`HistoricalPlan`: `plan` is the durable record with its log of entries, written before a call is
made; `exec` is where a run is. A run may stop at every step. `Verified` is the verifier of the code
over the same record, so the model says both what is written and what is accepted.
How it shares a turn with live audits is `SkillReview`; here a claim may be lost at any check.

### ShellGate and JobHelper

`proc[p]` is alive, doomed (killed, not reaped), away from its group, or dead; `holds` are the
processes with the pipes of the gate, `job` the handles of the Windows Job with its watcher
and control files. The helper makes the Job, whose name the watcher can open from then on, and joins it, in
two steps; `early` is a Job that was proved empty in between. Every timer that is set may fire at any moment. `ShellGate` has the
production paths; the seams that tests inject are left out. `JobHelper` has the directories
a process compiles its helper into: leases of gates, the idle timer, the exit hook and the janitor
of the next process, which judges an owner by pid and start identity.

## 3. Runs

| run | instance | shows |
|---|---|---|
| `executor_repair` | an implementer behind a gate, a shell node, and a checker that repairs the implementer; 2 calls of 2 waves, 1 crash, 1 fault, 7 global attempts, 2 at a time | what is saved is legal; launches are charged and not repeated; sessions are accounted for; nodes run on accepted inputs, a blocked run has a cause; history is kept; every call returns |
| `executor_interrupted` | the same without a gate | finding |
| `processes` | mutex: three processes that may die anywhere, a death inside the claim leaves one survivor; gate: a command of four processes, two faults, both platforms; helper: two plugin processes with two lives and two gates each, two directories, one change by somebody else | one holder, live records stay, refinement of `Lock`, a dead holder is replaced unless a file without an owner's record is in the way; a gate leaves nothing behind unsaid, its verdict is true and it answers; the helper stands while it is used and is not forgotten |
| `mutex_claim` | three processes, one dies in the claim | finding |
| `replication_log` | two databases, two events, segments of two, a fault | restorable manifest, honest receipts, refinement of `RemoteLog` |
| `memories` | run: two processes that execute, mutate and load it, 2 revisions, leases that expire and deaths anywhere; environment: two connections to one database and a replica, an entity shared and narrowed, another, a relation of one or both, 3 revisions, 3 keys; session: one guarded call and an allowance with the operator's commands and a delivery beside them, or two overlapping calls, or two deliveries and a journal of one entry, a fault, crashes | fenced commits, no lost change, backup is earlier; repeated requests are answered truly, snapshots can be restored, replicas agree, cached reads are true; once-only allowances, exact blocking, honest deliveries, nothing revoked is consumed |
| `skill_evolution` | two processes; promotion: two candidates (one creates the file, one revises that text), nothing or that text there before, 3 calls, 2 stops or failures, 1 edit; review: one turn, 2 attempts, 1 fault, 1 lapse; plan: two chunks, 4 model calls, 2 attempts | the user's texts are kept and every journal can be resolved; audits are bounded, fenced and settled only when reviewed; the verifier accepts what any run leaves, calls are charged once |
| `run_projections` | objects: two calls, a node of up to 3 attempts of which 1 is shown, a new run or a legacy one with or without backup and archive, revision 4, 1 damage; owners: two processes, one serving turns, 2 sessions, 2 runs, revision 5, 2 failures, 2 attempts of a refresh; cards: two calls, two attempts, 2 refusals; views: 2 sessions with a run each, 2 attempts of which 1 is shown, 2 selections or openings, 1 move, 1 damaged record | files that are led to stay whole; the index misses no run it was told of; cards follow and end; what is shown is of the selected session and navigation goes to whole recorded attempts |
| `review_fenced` | one process, two turns, 1 attempt, 1 fault, 1 lapse | finding |
| `files_commit` | transaction: a receipt and two files, all kinds of plans, either installer; one edit, one fault, two crashes; releases: three releases, the last two with one agent and the Excel pack, 3 commands of 12 combinations of options, 1 edit, 1 stop, 2 environments, 2 retained generations | the receipt commits last and says the truth, its generations stand; whole or journaled, repairable, originals reachable; users' bytes kept, nothing taken that is not the manager's, true reports |
| `files_finalise` | the same with one crash and nothing else | finding |
| `files_remove` | the same with one fault and nothing else | finding |

Bounds. Repair needs two attempts of implementer and checker, of which the global
budget must leave some and not all; more local than global attempts make a sibling refuse a
repair; a second call resumes what a crash left. Three processes are the least for a waiter
beside a takeover and for two survivors. A run needs a revision to compare and one to lose. Replication needs a
manifest that is full (`MaxBatches = 1`) to checkpoint and two histories to
diverge; the recovery bound (`MaxRecovery = 9`) never binds. In `memories` the
shortest way to a relation that is too broad is an entity, a relation of it to
itself and a narrowing, so three revisions reach it; one connection
(`Caller`) is followed through lost answers of two requests that another can make
impossible, or superfluous, in between (`Followed`), another (`Writer`) commits beside it,
and a cache of one entry evicts at the second read. Calls and the journal of a session have
in common the checkpoint and whether the session can be delivered to, so a behaviour has
the calls of one caller in turn with a delivery beside them (`Beside`),
or two calls that overlap (`Overlapping`), or both deliveries. Of a session four revisions
carry bind, record a failure, allow, consume; a journal of one entry makes the
second delivery push out the first. Two files and a receipt are the least for an
earlier, a later and a last file; the second crash hits the repair of the first. Three
releases and three commands are the least for an update, another one and a rollback over a generation that
is no longer retained (2 in the run, 16 in the code). In `skill_evolution` the second stop hits the recovery of the
first, a third call rolls back what the second promoted over the first; claims and leases are
per turn, and turns meet only where a reservation fences them all, so that one turn shows the rest (two exceed the time);
`review_fenced` has the two that the meeting needs, and the theorems hold of any number.
Four calls are fewer than two attempts for each of two chunks, a checker and a reduction, so the
budget ends inside a batch. That the global budget of a run ends inside a wave (`executor.ts:235`) takes five waves and is not reached by
`executor_repair`, only covered by the theorems. In `run_projections` a node of three attempts with one shown (4 in the code) has an archive that grows
once, and four revisions are a legacy run, its conversion and a save after it, or three saves of a new run; refreshes are given up after two attempts (5
in the code), so that one is; an attempt of two is archived, and a second reading is under way when the first opens its
session. Command processes are four: the leader (on Windows the helper), the command, a child in the group and one that leaves it. The largest
run has 3.5 million distinct states. Deadlock is not checked: every counter is
bounded, so each instance stops at the bounds, and the systems rest when nobody calls.

Fairness. `Executor!FairSpec` is weak fairness of the executor's own steps: a
call that was begun goes on, since each await resolves (children are bounded by
timeouts). `ProcessesSpec` lets every live process go on with its operation on a mutex, retry
(`awaitLock` does) and lets clocks pass expiry times; and it lets the gate's own timers
and callbacks run, since they are of one event loop. Nothing is assumed of crashes, users,
remote requests, commands, the native helper or its watcher.

### Findings

- `mutex_claim` (`filesystem-mutex.ts:264`): a claim is checked and then
  renamed away by its path; a second survivor breaks the first one's claim.
- `files_finalise` (`manager-core.ts:1998`): a crash while a committed transaction
  removes its links leaves a journal that no repair accepts, and that blocks every
  later install, update, rollback and uninstall.
- `executor_interrupted` (`executor.ts:549`): `alg_run` goes on beside an attempt that a crash
  interrupted; the route of a checker reopens that node without ending its attempt, the schema
  refuses the save, and the call fails with the route lost. `SavesAreLegal` excepts it.
- `review_fenced` (`skill-evolution-store.ts:310`): a reservation that has changed the ledger records no
  further candidate of a dead auditor, and the coverage closes its turn as unchanged.
- `files_remove` (`config-editor.ts:719`): a file counts as changed before it is
  unlinked; when the unlink fails, the rollback refuses and earlier files stay replaced.

Met while modelling, and not backed by a run:

- closing a run with a routed repair that has not run builds a state the schema
  refuses (`schemas.ts:909-914`), so the close fails (`executor.ts:627`; comment 613-615);
- attempts of overlapping calls may be pinned out of order (`executor.ts` commits them in one order,
  `session-memory/runtime.ts` records them in another), which preflight takes for the order of the run;
- a crash between the two files of a journal revision, published or erased, leaves an
  incomplete pair that the repair refuses (`manager-core.ts:2991`; docs/operations.md:305-306
  has a crash repaired by the same path, 314-321 lists incomplete pairs as evidence);
- a checker rejection that was settled but not routed before a crash or a
  cancellation is not routed by the resumed call, which simply repeats the checker
  (`executor.ts:597`; DESIGN.md:616 has it considered);
- DESIGN.md:905 and 906 describe edge cases the code no longer has: an
  unexpected rejection is classified `sdk_error` and the node is retried
  (`executor.ts:734-735`), and a failed branch beside unfinished nodes leaves the run
  `blocked` (`756-761`);
- release gives up at a deadline while the handle counts as released
  (`filesystem-mutex.ts:440`, comment 438-439), and a lock file whose writer died before
  writing it is never replaced (`161`; docs/environment-memory.md:176-178);
- reconciliation writes the run beside its lease (`store.ts:2907`; DESIGN.md:717);
- a hook that had nothing to prepare clears `deliveryUnavailable`
  (`delivery.ts:80`; docs/context-decision-contract.md:45-46), and an allowance that was offered
  is consumed although a new task has begun since;
- replication publishes segments and a snapshot whose sum exceeds `MAX_RECOVERY_BYTES`, which then
  can neither be restored nor moved on (`replication.ts:345`; docs/environment-memory.md:168-170);
- a turn may get a live and a historical candidate (`skill-evolution-historical.ts:1595-1621` against
  1634; CHANGELOG.md:43);
- a plan interrupted after the update that says "complete", or completed and its candidate then reviewed, is
  refused by the verifier for ever (1289, 1258-1271; docs/operations.md:113-118), which `VerifierAccepts`
  excepts; one that dies between its epoch file and the index can never start (1360-1373);
- recovery gives up its lock before the transaction takes it, so a journal that has
  been torn in between stays (`skill-evolution-store.ts:2160`; docs/operations.md:203); `trouble` excepts it;
- a crash while a release is materialised leaves a partial directory that every later install of
  that release refuses (`manager-core.ts:2443-2450`; docs/operations.md:254-255);
- a termination that is asked while the helper has made its Job but not joined it finds the Job empty and
  proves it so, and the gate answers without `termination_failed` while the helper starts the command
  (`shell.ts:127-130` against 146; comment 1088-1090, docs/operations.md:52), which `early` excepts;
- a spawn that throws rejects a gate without giving back its helper lease (`shell.ts:1293-1320`;
  docs/operations.md:54-64: `lost` in `JobHelper`), helper files that somebody changed refuse every later
  gate of the process, and a cancelled gate whose timer fires later reports exit 124 and both flags;
- cards: the sidecar is removed before the updates that close its cards are delivered, disabling cards
  removes it too, and a second call of a run takes up the sidecar of the first before it is refused the
  lease (`run-cards.ts:223`; docs/live-run-visibility.md:36-40); `lost` excepts these;
- `/alg-live`: selecting while another read is in flight shows "unavailable" without trying
  again; a navigation that times out, or meets the refresh timer, ends the refreshing of a running run;
- `/alg-runs`: an attempt is opened after its reads without looking at the route again
  (`tui-runs.ts:1161-1162`), also when the dialog is long closed; a failed read is cached for the dialog's life (975);
- owner index: a save that skips because of the memo, after a refresh was given up, leaves cached candidates of other
  processes wrong for up to five minutes; a late refresh for a former owner lists a transferred run
  again (`store.ts:589`);
- a save believes mirrors of the manifest it replaces without reading them (`store.ts:1523`), so one left
  by an aborted save stays wrong until the next load.

## 4. Proofs

Each holds for every value of the constants that satisfies the named assumptions.

- `Processes_proofs`, of the mutex (`FilesystemMutex`): `TypeCorrect`, `MutualExclusion`, `LiveRecordsStay`
  and `ImplementsLock`, the last three assuming `~DieInClaim`. The invariant adds to
  the type who owns the claim in each step (`ClaimGuards`), that the dead hold no
  place, and that what a process has seen is still there while it owns the claim
  (`MutexAsSeen`), without which the rename of a takeover could hit a live record.
- `Memories_proofs`, of the run store: `TypeCorrect`, `CommitsAreFenced`, `NoUpdateLost`. The
  invariant says which steps own guard and mirror, that no copy is ahead of the
  manifest, and that a copy that passed the comparison equals it until the rename.
  `BackupStaysEarlier` adds `StagedInOrder`: until the rename what is staged for the backup is the
  manifest, and between the rename and the backup it has fewer changes and a lower revision.
- `EnvironmentReplication_proofs`: `TypeCorrect` and `RemoteAppendOnly`
  (`Spec => RemoteIsLog`). The invariant says of a call that is about to publish
  that its next head extends the head it read; the compare-and-swap does the rest.
  `PublishedIsTrue` adds `Whole`: the manifest can be restored from the objects that are there, so
  can the one a call is about to publish (`Honest`), and the journal of an engine extends what its
  call has read. That objects are only added keeps both.
- `Processes_proofs`, of gate and helper (under `HelperAssumption`: the marks of no directory and no process are
  neither; `GateAssumption`: leader and command are processes). `HelperIsTracked` is from `Tracked`:
  per plugin process, what it builds, has, has given to gates and still has to delete fits the directories
  (`Fits`), and no directory is of a life that has not begun (`OwnersStarted`), without which a
  reused pid would own another's. `NothingIsLeft` and `VerdictIsTrue` are from `GateSound`:
  which process holds the pipes and the handles (`PipesHeld`, with it that nothing was started by a helper that is not in the Job), that the exit that was seen is the
  one there is (`CloseTrue`), what a termination has found out (`QuietKnown`, for a Job that was not proved empty `early`),
  and why anything was signalled (`Flagged`).
- `Executor_proofs`, for every graph (`GraphAssumption`, what `GraphDefSchema` accepts) and all
  budgets: `TypeCorrect`, `LegalSaves`, `LaunchesAreAccounted`, `SessionsAreAccounted`,
  `ScheduleIsSound`, `SavesOnlyExtend`. `IInv` has six parts: disk and memory are sound states and
  memory continues the disk (`StatesSound`), what waits in a wave stays ready (`QueueReady`), a child
  that has not answered runs in memory, and on disk once it works (`ChildrenTracked`), launches and
  sidecars are of attempts on disk (`HistoriesAgree`), a done node is reopened only by a route whose
  rejection is on disk (`DoneKept`), a blocked run has its cause. `ChildrenTracked` and `HistoriesAgree`
  need one another: an attempt is launched once because its number is reserved on disk before.
  Its first half shows what the operators of `graph.ts` and the transitions (`RunState`) keep
  of a state (`Sound`, `StatusSound`, `Extends`).
- `SessionMemory_proofs` and, of sessions, `Memories_proofs` (`SessionAssumption`: at least one pin and one entry
  are kept, `None` is neither a call nor an allowance): `RepeatsAreGuarded`, `JournalIsHonest`,
  `RevokedIsNeverConsumed`, and of a session alone `Sound`. Of the invariant `Inv`, `Consumed` says
  that the allowance of a call about to execute is not offered any more, which is what makes
  `ConsumedIsGone` inductive; `Once`, that a call whose allowance was executed under has loaded a revision
  that is gone, which is what makes `AllowanceOnce` so; `InTurn`, of calls that follow one another, that a failure is recorded of the run as it is, and that pinned failures cite the run
  in its order (`Ordered`), so that the newest one, which is all that preflight looks at,
  decides for all of them; `Delivered`, that a text that is shown was published and a
  record says `hook_failed` only when its hook has ended. The lemmas are
  per step of one session; `Memories_proofs` carries them to the three instances.
- `Memories_proofs`, of the environment memory (`EnvironmentAssumption`: the operations are what
  `OperationSchema` accepts, every connection has a database, `Nothing` is no record and no type):
  `ReplicasAreTrue` and `RepliesAreTrue`. `EnvironmentSound` says of each database that there is a history
  of well stored tables, one per event, that begins empty and ends in what the database has (`Evolved`); two
  histories agree as far as their logs do (`Agree`), which is why append, snapshot and replay come to the same,
  and a replayed database has that of the one it reads, cut off (`Replaying`). Well stored are tables whose
  relations fit their ends, whose identities have their record unless revoked, and whose keys are of one event
  each. A cache is of the current tables if its connection has seen their revision (`CachesSound`).
- `RunProjections_proofs`, for all runs, sessions, calls and bounds: without an assumption `LiveIsTrue` and
  `CardsAreTrue`, and under `OwnerAssumption` (a finite set of runs; `None` is no session and no memo)
  `OwnersAreTrue`. `LiveSound`: what is shown is of the owner selected last (`Shown`), an operation
  in flight is of this selection or an earlier one, and if of this one, of the owner and run that are
  shown (`InFlight`, which is why a late answer changes nothing), and the browser holds a run of its owner
  and opens what that run had recorded, with the output only after a whole detail (`Browsed`).
  `CardsSound`: what a call has still to say of its own card ends as the call knows the card, and of
  others' it says only that they ended (`ChainsFit`); completed is of attempts saved as done
  (`DoneFirst`); a call that is cut off counts what it was to say as lost (`CallsFit`); and of a card
  that is not lost the host shows what its call has said, and one that a dead call left running is in
  the sidecar until another call speaks of it (`NotLost`, `SidecarFits`).
  `OwnersSound`: a revision is of one run (`RevisionsFit`), what a saver has still to tell is as the run
  is (`WorkFits`), no entry, present or on its way, lies between that of a run that was told and the
  run's revision (`IndexSound`, why a refresh that comes late does not push the run out), a current
  memo names the newest entry and, unless something is still to be told, how that run is
  (`MemosFit`), and a scan under way has, or has left to read, every incomplete run (`FindingsFit`).
  `ObjectsAreTrue` is under `ObjectAssumption` (`None` is no manifest and no archive, a fixed name is no
  digest) for any number of attempts, of which any number is shown. `ObjectsSound`: whoever has the mirror
  mutex keeps every name that the manifest or its backup leads to, unless it knows that it does not know
  them all (`Spared`, why a mirror overwrites nothing legacy); what a save refers to is still to be
  written or is whole (`Publishes`, where a content-addressed name says the content, `NamesSay`); the mirrors
  that a load is past are made, and a later one undoes none (`Mirroring`); and a copy with the revision of
  the manifest has its contents, so that what is saved grows from it (`Copies`).
- `SkillEvolution_proofs` (`EvolutionAssumption`: no process has the name of the plan or of nobody, one attempt at least,
  a half-written file and the text a revision proposes, which the candidate's own record keeps as well, differ from
  what the user writes), for all turns, processes, chunks, candidates, texts, budgets, faults, edits and lapses:
  `PlanAlwaysHolds`, `CallsAreAccounted`, `AuditsAreTrue`, `FencesAlwaysHold` and `TextsAreKept`. Of a plan, `LogInv` says that the log is what the verifier asks for, each entry following from those
  before it, and `HistPlaced` which entry the place of the executor lets come next, so that whatever is appended or
  committed keeps the log in order; `HistCharged` counts what was paid before it was sent. Of reviews, `RevHeld` says
  that whoever works holds the lease: an audit and a plan exclude one another even after the lease has lapsed, because nobody
  takes it over from a holder that lives. `RevAudited` says of an audit that its turn has no candidate yet and,
  before its auditor begins, that an attempt is left for it; `RevLive`, that a turn with a candidate is in the ledger,
  and is unchanged there only once the plan has covered it; `RevPlan`, that the plan passes only turns that
  were reviewed. Every write of the ledger, torn by a death or not, is `Proper`: it takes no candidate back and closes
  as unchanged only a turn that was reviewed and has none, or that is covered.
  `TextsAreKept` proves `TextsKept` from `PromInv`: every text of the user's has a name that no tidying takes
  (`KeptOutside`, the prepared files left out), even though the user may edit at any moment, through any link. A
  transaction has done what stands before its place in its script (`RunAt`: when it unlinks the target, the
  claim leads to the inode that was found, so that an edit in place is kept by it), and every operation a recovery has
  left spares some name of each text, whatever happened since it judged its journal (`FixAt`). A backup is written by one
  journal and removed only by it, while no revision and no rollback, committed or under way, relies on it (`Uses`, which is
  why `RollbackPossible` survives a journal that outlives its commit).
- `Installation_proofs` (`FilesAssumption`, and `ReleaseAssumption`: release 0 stands for none, the names a receipt has
  for no owner are nobody's bytes, one generation at least is retained): `ReceiptStaysTrue`, `OnlyItsOwnIsTaken`,
  `UserBytesSurvive`, `ReceiptIsLast`, `WholeAlways` and `ReportsAreTrue`, for every set of files, plans, releases and commands. `RelInv` says of the release
  manager that, while no transaction is pending, the receipt tells of the files, but for those users changed
  (`RelQuiet`), and that a pending one can go either way (`RelJournal`): what it wrote is what its receipt tells of,
  what it took is what the old receipt told of, which is why a repair may go by the receipt alone; a command that
  plans has made sure of its release and of its environment (`Prepared`), and what it plans takes only what the
  receipt lets it (`Takes`). Of the links and unlinks, each names a slot that
  holds nothing or what the plan put there (`Moves`), from the checks in front of it.
  `ReceiptIsLast` proves `ReceiptCommitsLast`. `LastInv` says what is left to do (`todo`) in every phase: no file of
  the plan is changed before the receipt was withdrawn (`Withdrawn`), and the journal of the receipt comes after those of the
  files (`Ordered`). The scripts are joined from one per file by a fold, of whose recursive function `BuildsExists` proves
  that it exists and `FlattenIs` what it computes.
  `WholeAlways` proves `WholeOrJournaled` from `WholeInv`. What a script holds is known as a set (`Block`) in an order
  of which only what matters is said (`Precedes`): a slot is claimed and recorded before it is unlinked and
  published, withdrawn before it is returned, and links go last. So of a commit every file that the
  script has not come to is old and every one it has passed is new (`Forth`), of a roll-back every file
  with nothing left to do is old (`Back`); a file that may be gone has its claim, and the claim its record in
  the last complete revision (`Claimed`, `Confirmed`, the half-published revision apart), which is why a repair
  can tell its claims from those of others (`Sound`) while nobody edits. `ReportsAreTrue` proves
  `ReportedTruly` from the installer's own `DirectInv`, which adds that of a file that does not count as changed the first
  operation is still to be done (`Unmutated`): the roll-back gives back neither more nor less than was taken.

Finding these invariants corrected the model: the roll-back of `ConfigCommit` had counted a file as changed before the
check that refused it, damage during a save had been held against the damage
before it (`before` in `RunObjects`), `SavesAreLegal` does not hold of the route of
`executor_interrupted`, nor `RepeatBlocked` of calls that overlap, and the cases of an
operation (`Permits`) and of an outcome (`Classify`) were not disjoint, so that only the order in which TLC
reads them made them the code's.

Only model-checked: that the records of a promotion can be resolved (`RecordsRecover`). Liveness (`CallReturns`, `DeadHolderReplaced`, `GateReturns`) is beyond the prover, and so is `ENABLED`. Induction over data in general is, too;
that a set of numbers has a least element, which is enough for one predicate at a time, is proved
where it is needed from the well-foundedness of inclusion (`Least`, `Newest`).

## 5. Not modelled

Dry runs, prompts, outputs, criteria and legacy records of the executor (the
status `ready`, which nothing assigns, among them); locks of remote hosts and failing file
operations of the mutex; of the store the evidence files, the root-authorization archive and
path checks; S3 and every capacity of replication but the recovery bound; of the engine queries,
validity intervals, capacities, namespaces and the secret check; of session memory the
mode `observe`, expiry, resolutions, pinning by hand, context receipts and
delegation; of skill evolution the archiving of settled ledger entries, the validation of
texts, evidence files, discovery, sealing and preview of sessions, and recovery context
after compaction; of the file transactions backups, faults while files are prepared and planned
files that stay absent; of the shell gate its pre-flight, the environment and output tails; of
the terminal parsing, rendering and keys. The components without a module are listed in
`PROJECT.json` with the reason.

## 6. Plan

1. Proof of `RecordsRecover`, from `PromInv` and what each record says of the text it made.
2. Environment memory: the breadth-first query with its bounds (`engine.ts:364-440`).
3. Model settings (a compare under a lock, beside `ConfigCommit`); promotion as a
   refinement of an atomic change of text and record.

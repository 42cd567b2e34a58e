# A formal model of claw-mem

This directory holds TLA+ specifications of the core of the `claw-mem`
repository, the TLC configurations that model-check them, and machine-checked
proofs about them. File references are relative to `src/packages/`.

## The system

The repository has three npm packages that run as plugins of one OpenClaw
gateway process, each with a command-line program that may run beside it.

| Part | State | Operations | Where | Module |
|---|---|---|---|---|
| Backup scheduler | timer, `running`, last manifest, counters; `state.json`, `latest-recovery.json` | `start`, `stop`, `runBackup`, `patchBackupState` | `soul/src/backup/scheduler.ts`, `soul/src/local-state.ts` | `BackupScheduler` |
| Anchoring | IPFS objects; contract nonces and history | `anchorBackup`, `heartbeat` | `soul/src/backup/anchor.ts`, `soul/src/soul-client.ts` | `BackupScheduler` |
| Change detection and upload | manifest entries | `detectChanges`, `uploadFiles`, `buildManifest` | `soul/src/backup/` | `SnapshotContent` |
| Recovery pipeline | target directory, restore marker | `restore`, `autoRestore`: resolve, download, apply, verify | `soul/src/recovery/` | `Recovery` |
| CID resolver | local index, map in MFS | `resolve`, `register` | `soul/src/recovery/cid-resolver.ts` | `Recovery` |
| Carrier daemon | `activeResurrections`, shutdown signal; detached agent processes | `start`, `stop`, `addRequest`, the flow | `soul/src/carrier/`, `soul/src/carrier-manager.ts` | `CarrierDaemon` |
| Life cycle of a soul | registration, resurrection settings and requests, as chain and `state.json` have them | `backup init`, `create`, `doctor`, `resurrection ...`; the same as tools | `soul/src/lifecycle.ts`, `soul/src/cli/commands/backup.ts` | `SoulLifecycle` |
| Offline monitor | watched and known-offline agents | poll, `addWatch`, `removeWatch` | `soul/src/carrier/offline-monitor.ts` | - |
| Chat memory | SQLite `observations`; compaction triggers in memory | message hooks, compaction pass, forget | `claw-mem/src/hooks/index.ts`, `claw-mem/src/observer/chat-compactor.ts`, `claw-mem/src/db/observation-store.ts` | `ChatMemory` |
| Session memory | observations, summaries, open sessions | the other hooks; recall; forget, prune, export, import | `claw-mem/src/hooks/index.ts`, `claw-mem/src/cli/commands/mem.ts` | `SessionMemory` |
| Search, context builder | none (reads rows) | hybrid recall, packing to a token budget | `claw-mem/src/search/`, `claw-mem/src/context/` | `SessionMemory` |
| Node manager | registry, keys, configurations, pid files, processes | install, start, stop, restart, remove, update | `node/src/` | `NodeLifecycle` |
| Bootstrap manager | hardhat, its pid file, operator key, artifacts | `bootstrap dev`, `bootstrap teardown` | `claw-mem/src/services/bootstrap-manager.ts` | `Bootstrap` |
| Database, archives, migrations | schema version, archive rows | `runMigrations`, listings, prune | `claw-mem/src/db/` | - |
| Storage quota | reservation file | `ensureReserved`, `assertCanAdd` | `node/src/storage-quota-manager.ts` | - |

They interact through shared files (`state.json` is read and written by the
scheduler, by tools and by the CLI; pid files by every program), through the
wallet's nonce (every transaction of every process uses it), through the
SoulRegistry contract (recovery and the carrier restore what the scheduler
anchored), through SQLite (the CLI prunes and imports while hooks capture) and
through gateway hooks (`session_end` requests a backup, `message_*` capture
chat, `gateway_stop` stops the scheduler and the carrier).

What is hard about it: every operation is a chain of `await`s in one event
loop, so that other operations run between any two of its steps; nothing is
locked except by flags in memory; transactions can be mined after their sender
gave up; files are read twice, written in place, and written by several
programs; processes are spawned detached and outlive the program that knows
them; programs die.

What makes each part correct, in a sentence:

- scheduler: one backup at a time per process; what is anchored can be restored
  (parents first); the files name anchored backups; the timer goes on until it
  is stopped; chains of incrementals stay bounded;
- snapshots and recovery: what a restore reports as verified is one backup, a
  restore in which nothing failed verifies, and a skipped backup had nothing to
  save;
- carrier: nothing starts after a stop, nothing is left behind unobserved, a
  process is never lost from the books, every flow settles;
- life cycle: every writer of `state.json` hands the pending request on, a healthy
  report is true, and following the advice leads to a soul that is set up;
- chat memory: no message is lost, none is recalled twice, the freshest stay
  raw, the backlog stays bounded;
- session memory: a prompt is told nothing of one session twice and not more
  than fits, summaries do not forget, and what is said is filed under its session;
- nodes and bootstrap: whatever runs can be found by the files that are to name
  it, a node's key is replaced only by a removal or by another name installed
  into its directory, and funds keep their key as long as every run notices the
  chain that is there.

## Modules

| Module | Role |
|---|---|
| `BackupScheduler` | the scheduler, its files and the chain, for several processes |
| `BackupLedger` | what the scheduler promises: a growing ledger and two pointers into it |
| `BackupScheduler_proofs` | theorems about `BackupScheduler`, and that it implements `BackupLedger` |
| `SnapshotContent` | what backups contain, while files change underneath |
| `Recovery` | extends `SnapshotContent`: the restore of those backups, and the CID resolver |
| `Recovery_proofs` | theorems about `Recovery` with `SnapshotContent` |
| `CarrierDaemon` | carrier manager, daemons, resurrection flows, agent processes |
| `CarrierDaemon_proofs` | theorems about `CarrierDaemon` |
| `SoulLifecycle` | registration, doctor, resurrection requests, beside a timer's backups |
| `SoulLifecycle_proofs` | theorems about `SoulLifecycle` |
| `ChatMemory` | capture, compaction passes, prune, forget |
| `ChatMemory_proofs` | theorems about `ChatMemory` |
| `SessionMemory` | sessions, summaries, recall and maintenance of the memory |
| `SessionMemory_proofs` | theorems about `SessionMemory` |
| `NodeLifecycle` | nodes and their processes, for several programs |
| `NodeLifecycle_proofs` | theorems about `NodeLifecycle`, and its lemmas for `Bootstrap_proofs` |
| `Bootstrap` | extends `NodeLifecycle`: development stacks brought up and taken down |
| `Bootstrap_proofs` | theorems about `Bootstrap` |
| `MC...` | values of the constants for TLC: functions, symmetry, views, constraints |

Conventions. An action is the code between two `await`s, named after the
method or after what has just been answered; a call that may fail has an
action for each outcome that matters. Definitions that begin with "Mutant" in
their comment are plausible bugs, used by nothing: replacing the definition
they precede by them makes the property listed in `PROJECT.json` fail.
Variables that only properties read are marked "history". Properties stand in
the module of the component, invariants that only the proofs need in its
`_proofs` module.

### BackupScheduler

A *call* is one `runBackup()` promise; its `pc` walks through hydration
(`readState`, `catManifest`), the reentrance guard (`enter`) and
`_executeBackup` (`plan` ... `beat`). A manifest is a natural number, its
position in `ipfs`; of its contents the model keeps the parent and the length
of the chain. `backups` is the contract's history. `fresh` is the set of
calls whose nonce is still current: a mined transaction, from whichever
process, empties it. `pending` holds the transactions whose sender has given
up and which may yet be mined. `writeFile()` is two steps, truncate and
write; what a reader sees of a torn file is `readJsonFile`'s `null`. What the
change detector finds is a choice (`NoChanges` or `Upload`). A crash resets
one process and keeps files, IPFS and chain.

`Ledger == INSTANCE BackupLedger` is the refinement mapping: the anchored
manifests with their parents, the head of `state.json`, the CID of
`latest-recovery.json`.

Left out: the archive store of `BackupManager`; file contents (see
`SnapshotContent`); the time a delay takes (a set timer may fire at any
moment).

Behaviour worth knowing that no property judges: `stop()` during a run of the
timer finds no timer to clear, and the run's handler, which asks only
`config.autoBackupEnabled`, schedules the next one (`scheduler.ts:72-94`); the
delay after failures is capped at one hour, so that a scheduler with a longer
interval runs more often when it fails.

### SnapshotContent and Recovery

`SnapshotContent` looks into one backup run at a time (`OneBackupAtATime` of
`BackupScheduler` allows it). The walker reads one file at a step (`Scan`), the
uploader reads it again (`UploadFile`), and the agent writes in between
(`Edit`). A content is a number and a hash is the content it is the hash of;
`seen` and `lived` (history) remember which contents each file had during the
run. A database is uploaded as the copy that `sqlite3 .backup` makes, whose
hash differs from that of the file it is a copy of, or, where that program is
missing, as the main file without its write-ahead log: `main` is what that file
holds, and `Checkpoint` folds the log into it. `Restart` begins a new process,
which finds any earlier manifest, or none, as its last one.

`Recovery` adds the target host. `AnchorBackup` and `UpdateMfsCidMap` register a
CID as `anchorBackup()` does when it is given a resolver. A restore asks for a
manifest (`RestoreCommand`) or for the newest one on chain (`AutoRestoreTool`),
which is resolved through the local index and MFS. Its chain is walked to the
full backup, checked against the anchor, downloaded oldest first, file by file,
each of which may fail; obsolete files are deleted, each of which may fail; the
result is verified against the last manifest; `autoRestore()` then writes
`RECOVERY_CONTEXT.md` and a marker. It may fail, or the process end, at every
step. `RestoreFails` leaves the directory as it is at that moment.

`RECOVERY_CONTEXT.md` is a file of a backup, too (`change-detector.ts:41-42`), and
is written over after the verification has counted it (`Rewritten`): an agent
that was resurrected once has it, and its next restore through `autoRestore()`
reports `merkleVerified` of a directory whose `RECOVERY_CONTEXT.md` is a new
one. `VerifiedIsOneBackup` excepts that file, from the moment it is written.
`updateMfsCidMap` takes a map that it cannot read for an empty one and writes
the new entry alone (`UpdateMfsCidMap(FALSE)`), so that earlier backups are
resolved no more; the newest one, which auto-restore asks for, is the entry.

`VerifiedIsOneBackup` and `SkippedIsSaved` except a database copied without its
log: `binary-handler.ts:35` says "Falls back to WAL checkpoint + file copy",
but the code makes no checkpoint, so that what is saved may be older than the
database was at any moment of the run. Beside the
rewritten file, this is the one place where the content of a verified restore is
not that of the backup's moment.

`Registering` is `anchorBackup()`'s optional `cidResolver`. The run `recovery`
sets it, since that is what the pipeline is written for, and the steps after
the resolution are the same; the run `autorestore` leaves it out, as the
scheduler does, and finds that nothing can then be resolved.

### CarrierDaemon

Daemon *g* is the g-th one `CarrierManager` creates; a flow is a pair of a
daemon and a request, and `flow` says which `await` of
`executeResurrectionFlow` it is in. `running` is the shutdown signal seen from
the flows. `Proceed` is `checkShutdown`. `procs` are the processes ever
spawned; `reported` the pids in the results of flows, `killed` those
`stopAgent` was called for, `lost` (history) those a crash of the gateway made
it forget. The contract answers what `getResurrectionReadiness` and the calls
in `soul-client.ts` imply: a request exists until it is cancelled, is
confirmed, approved, executed. Transactions may be mined with their receipts
lost. `autoRestore()` is one call. Flows do not look at what it returns: an
agent is spawned after a restore with errors, too.

### SoulLifecycle

Two tasks, the timer's backup and the operator's command, each with its
position `at` in the code and what it has read so far (`saw`, `id`). A backup
is reduced to what the rest of the life cycle sees of it. `init` goes on to
register, back up and configure; the doctor reads the local files, IPFS, the
soul, its settings and the pending request one after the other (`ReadLocal` ...
`GetResurrectionRequest`), then derives its state and the commands it advises
(`LifecycleState`, `Advice`). Commands may be given at the command line or as
tools, in the program of the timer or beside it (`inGateway`: `already_running`
is seen in one program only). `Elsewhere` is what other wallets do to the same
soul; `DirIsLost`, `IpfsFails`, `EditPassword` are the operator's bad days.

`writeFile()` is two steps, truncate and write (`TruncateState` and
`PersistState`, `PatchTruncate` and `PatchWrite`, `TruncatePackage` and
`WriteLatestRecoveryPackage`), and a task that fails between them leaves a file
that reads as if it were not there. `torn` (history) says that two
read-modify-write cycles of `state.json` have overlapped, or that a write of it
was cut off; the code has no lock and no second copy, and `PendingIsKept` does not
speak of what follows. A crash between `initiateResurrection` and the patch loses
the request for this host; this is in the model (`Fail`), and `owed` counts a
request from the patch on. A package that is being written or was cut off is one
of the things that may come between a doctor's reads and its report.

The doctor's advice is not complete, and the model has it as it is: a missing
`latest-recovery.json` has no command; `restore --password`, advised when the
package needs one, does not change what blocks the restore; state `offline` has
no advised action; an `init` that meets the timer's backup fails after the
registration. `SetUpAtLast` says that the soul gets there all the same.

### ChatMemory

One agent. A message is its position in `captured`; `into` is
`compacted_into`; `rows` the messages whose row still exists. A pass `p`
awaits the summary of `batch[p]`; any action runs during that. Passes begin
from the queue that `setImmediate` makes, or from `onAgentEnd`.

Rows are ordered by `created_at_epoch`, whole seconds. SQLite answers the
ascending query from `idx_obs_compacted_agent` (declared DESC) backwards and
the descending one from `idx_obs_agent_epoch` forwards, so that of one second
the *first* row inserted counts as the most recent; `Older` says so, and
`TailIsKept` is stated in that order. This is the one fact the model takes from
SQLite's plan and not from the source.

The clock never runs backwards. `Forget` is for sessions of the agent, not for
the artificial session of a compaction row. At most one disturbance (a failed
pass or a restart) happens in a behaviour. A pass pulls at most
`triggerEvery * 5` rows (and never more than 200) and keeps the last
`keepRecentRaw` of those; where the former does not exceed the latter (the
defaults are 50 and 20) nothing is ever compacted; the assumptions allow such
values. `overrun` (history) says that a pass has begun with more raw rows than
it pulls. What such a pass leaves behind stays behind, because later passes
pull and keep the newest, and `BacklogBounded` does not speak of it: the proof
needed the condition, which the small instance does not reach.

### SessionMemory

The hooks of one agent over several sessions. `table` is every row ever
inserted, `rows` those that are there. A hook is one step, except `agent_end`,
which awaits the summarizer (`onAgentEnd`, `Summarized`) when the mode is not
heuristic. Events may come without their session's id (`given = FALSE`) and are
then filed under the session that is open. If none is, a tool call is filed under
"unknown", and a message under an id made up of the time, a new one for each
millisecond (`FromClock`); a session that starts without an id gets such an id, too.
`mixed` and
`overlapped` (history) say that the code had no chance: events of two sessions
interleaved in one agent's single entry of `activeSessions`, or two summaries
of one session were awaited at a time. What a search may find is any set of
rows up to its limit (`SearchResults`); `recallObservations` merges them with
the newest, `Packed` packs rows and summaries into the budget, and
`captureSemanticSnapshot` does the same for a backup. An import runs row by row
in another program, can stop between any two, and makes new rows; it looks for a row
and inserts it in two statements (`ImportLooks`, `ImportInserts`), between which a
hook may insert the same (`stale`, history). That the look of a hook, which is one
step with its insert here, is overtaken by the import has the same outcome.
`Newest(S, n)` are the first *n* rows in the order `Newer`, and `InOrder(S)` lists
them; both are defined by rank (how many rows are newer), without recursion.

Left as the code has them: `mem peek` says it shows "the context that would be
injected on the next prompt" but never searches; an import drops `compacted`,
so that a message can return beside the compaction made of it
(`ContextIsSound` excepts imported rows), and takes two rows for one at any
distance in time; what is sent again without an id while no session is open has
another id, hence another hash, and is stored and told again (`ContextIsSound`
speaks of what is filed under one id); forgetting a session leaves what a compaction under way says
of it; an ended session's entry is deleted by whichever session ends;
`recallObservations` tests `maxObservations` only after it has pushed a recent row
(`hooks/index.ts:392`), so that hits that fill the limit (`maxObservations` of 1, or
a `searchLimitRatio` of 1) let one row too many be told, although the limit
is documented as a hard cap (`clawhub-skills/claw-mem2db/SKILL.md:160`). `MostRecalled`
is the bound that holds.

### NodeLifecycle and Bootstrap

Programs (`Clients`: the gateway, the CLI) each run one operation at a time, one
`await` a step, over one base directory. The registry is a SQLite table or
`nodes.json`, of which a program holds a copy (`cache`): it reads the file once and
writes back what it knows, so that entries written by others in between are lost
or revived. `Known(c)` is what program `c` finds in the registry; every operation but
`install` begins with a lookup in it (`requireNode`, `getNodeStatus` included), and
fails if there is no entry. An entry names the data directory of its node (`rows`),
and `install` takes any directory (`--data-dir`), also one in which another name is
installed: it checks only the name. The files of a node belong to a directory: `nodeKey`,
`config` (the key whose address it names, or `Custom` when a patch of the
configuration, which may be of any field, gave it another `nodeId`) and `pidFile`. A
removal with data deletes them one after the other; a failure at any of them is a
warning, and the entry goes all the same (`RemoveFile`, `RemoveDirectory`,
`Unregister`).

A service process has a pid; it may exit at any time (`Exit`), and its pid be taken
by another process (`Reuse`), which `kill(pid, 0)` does not distinguish. `Die` ends a
program where it is, and may leave the file it was writing empty (`Torn`) or
`nodes.json` unreadable, which counts as having no nodes. `raced` and `mixed`
(history) are the directories where the code has no guard. In those of `raced`
a `start` overlapped another operation on processes, or was cut off between
`spawn` and the pid file. In those of `mixed` an `install` overlapped another operation on
the same files or name, an operation on files was cut off, or a removal deleted the
data of a directory that another entry named, too. The properties say what holds
elsewhere; what they say of entries, they say of the table: `nodes.json` has no
guarantee when two programs write it. `KeyIsKept` names the one other way in which a
registered node loses its key: that another name is installed into its directory,
without overlap or failure.

`Bootstrap` adds the chain: `bootstrap dev` checks the ports, spawns hardhat,
writes its pid, waits, writes and funds an operator key, deploys, installs and
starts a node through the actions of `NodeLifecycle`, persists the key and makes
a backup; `teardown` undoes what it finds. It may fail at every step and be run
again; there is no rollback, every run writes a new operator key, and
`skipIfReady` skips nothing (`bootstrap-manager.ts:145-152`). The port of hardhat is
an option of each run (`Ports`), and a run looks only at its own. `bypassed` (history)
are the chains that a later run did not notice, because they served another port
(`--hardhat-port`) or had not bound theirs yet: that run writes its own pid over
theirs in `hardhat.pid`, and a new key over their funded one. A contract address
is the chain it was deployed on. `overlapped` says that two commands ran at a
time.

## Runs

Passing runs:

| Run | Instance | Shows |
|---|---|---|
| `process` | one process, two calls, two manifests, fresh agent | type correctness, mutual exclusion, restorable history, durable files, and under `FairSpec` that `running` is released and the timer set again |
| `shared` | two processes with one call each, one patcher, three manifests, an agent with one backup | the scheduler implements `BackupLedger`; incremental chains are bounded when a process has one call at a time |
| `recovery` | two backups of three files (one an encrypted database, one rewritten by auto-restore), two edits, one restore | what is verified is one backup; an undisturbed restore verifies; what is skipped is saved |
| `carrier` | two daemons, two requests for one agent, one flow at a time, two spawns, crashes | safety of stop, drain, spawn and completion |
| `carrier_liveness` | one daemon, `FairSpec` | every flow settles |
| `soul` | two requests, two events (commands unasked, timer ticks, failures, outages) | the pending request is handed on, healthy is true, and the advice leads to a soul that is set up |
| `chat` | four messages of two kinds in two sessions, two passes, two seconds, two compactions | nothing lost, nothing twice, audit trail, tail kept, backlog bounded |
| `memory` | two sessions, two made-up ids, three rows, two seconds, two events, one exported file | contexts fit and repeat nothing of one session, summaries do not go back, sessions are not confused |
| `nodes` | two programs, two names and two directories, one service, two pids, three operations, two chains on two ports, two keys of each sort | processes, chains and keys are where the files say, but where operations met or a run did not notice a chain |

Runs whose property the code violates (each a finding in `PROJECT.json`):

| Run | Property | What happens |
|---|---|---|
| `hydration` | `ChainBounded` | two calls that hydrate at the same time: the later answer sets the count back before the other's backup is persisted with it; a restart hydrates the new head with the old count |
| `carrier_pending` | `PendingAreTried` | configured requests beyond the limit are dropped by `start()` |
| `autorestore` | `AutoRestoreFindsBackup` | the scheduler registers no CID, so that auto-restore resolves none |

### Bounds and why they are enough

- Two calls of one process, two programs, two passes, two tasks: every race in
  the code is between two parties (one that awaits, one that acts meanwhile).
  The theorems cover any number.
- `MaxManifests`: two manifests make a full backup and an incremental one whose
  parent matters; three, with one before the start, make a chain that passes
  `MaxIncrementalChain = 1`.
- `MaxFailures = 0`: the counter only selects the length of a delay, and the
  length of a delay has no effect on what may happen (a set timer may fire at
  any moment). `TypeCorrect` holds for every bound.
- `MaxStarts = 2`, `MaxSpawns = 2`: a daemon that gave up draining and its
  successor, each with an agent process.
- `MaxChats = 4` with `TriggerEvery = 2`, `KeepRecent = 1`: two triggers, hence
  two passes whose batches overlap; `MaxSeconds = 1` gives rows of the same and
  of different seconds; two compactions cover a row that overlapping passes mark
  twice, and a prune between a pull and its commit.
- `recovery`: two runs make a full and an incremental backup; two edits and two
  contents let a file change between hash and upload and back; the context file
  changes with every run, so that no chain is trivial. `NoteIsOnlyDeleted` lets the agent
  delete `RECOVERY_CONTEXT.md` but not write it: files that change while they are
  read are the matter of the database. `OwnerWaits` lets the
  owner's side begin at any moment but stops it once the restore runs: the
  restore reads only what is already anchored, and manifests are appended, so
  that nothing the owner does later could change its course but the reason in
  `anchorCheck`. `RestoreView` forgets the owner's position from then on, and
  after the resolution how the manifest was found; `FirstContentSpec` fixes which
  of two interchangeable contents comes first.
- `soul`: two events let one thing go wrong twice, or two things once; a command
  advised by the doctor and what the habit repeats are not counted.
- `memory`: three rows are a message, its repetition and one other, or two
  messages and the compaction of them. The search may fill `maxObservations`, so
  that three rows can be told. `Followed` cuts the instance where one
  more event would only combine what has been seen apart: it does not continue
  beyond the first overlap (of which nothing is claimed); once a file is
  exported, no session is open and at least one has no summary, and hooks await
  summaries only before the import begins; with a third row or a second event
  nothing is awaited or summarized; made-up ids are not combined with files and
  events. States at the cut are still checked. `MemoryView` forgets
  what no step reads: texts of deleted rows, and whose an unfiled row is.
- `nodes`: three operations are two that overlap and one that finds what they
  left. Two names and two directories let the names share a directory, and a
  name be removed and installed in the other one; `nodes.json` is shared by all
  of them. `Followed` does not continue beyond two overlapping bootstrap commands
  (of which nothing is claimed), follows bootstrap commands only where the
  default node in its own directory is all there was, and another port than
  the configured one with at most two operations. States at the cut are still checked.
  `NodesView` forgets recorded addresses, and of dead chains the port, what was
  funded on them and whether they were noticed, which no step reads.
- Runs without TLC's deadlock check (`chat`, `recovery`, `soul`, `memory`,
  `nodes`) can reach all their bounds and stop there; the other specifications
  never stop.
- Symmetry is used in `shared` (processes together with their calls), `chat`
  (passes), `memory` (sessions, ids, hooks) and `nodes` (programs), in runs that check
  safety only (`KeyIsKept` and `ImplementsLedger` have no liveness). `shared`
  also hides `acked`, which no action and no property of that run reads.

### Fairness

`BackupScheduler!FairSpec` has weak fairness of each call's next step: a
request to IPFS, to the node or to the disk is answered or fails, and the
event loop runs the continuation. That `tx.wait()` ends is part of it, and is
an assumption about the node (the code sets no timeout). Nothing is assumed of
callers, of `stop()`, of crashes, or of transactions that are mined late.

`CarrierDaemon!FairSpec` has weak fairness of the flows of a daemon and strong
fairness of the readiness deadline, which the code checks whenever the loop
comes round: a request that is never ready is asleep again and again, and the
clock passes `readinessTimeoutMs` in finite time. Guardians, agents, operators
and crashes owe nothing.

`SoulLifecycle!Spec` has weak fairness of the steps of a command and of the
timer's backup (awaits return, or fail by `Fail`, which is bounded), of
`IpfsReturns` (an outage ends), and of `Habit`: an operator who follows the
doctor's advice, or repeats `backup init --key-hash`, goes on doing so. The
last is an assumption about a person and the point of the property: it says
that going on is enough. Nothing is assumed of other hosts, of the loss of data
or of unasked commands, but that they are finitely many.

The other specifications have no liveness property; the code gives no promise
that a summary is ever made or a failed restore repeated.

## Proofs

All theorems are checked by TLAPS (SMT, Zenon and PTL) for every value of the
constants, under the assumptions that the modules name and TLC evaluates:
`ConstantsAssumption` (`BackupScheduler`, `CarrierDaemon`, `ChatMemory`),
`ContentAssumption` and `RecoveryAssumption`, `LifecycleAssumption`,
`MemoryAssumption`, `NodeAssumption` and `BootstrapAssumption`. They say of which
type a constant is and how bounds relate; besides, that requests and sessions
are finitely many, that files have an order in which they are walked (`Paths`),
that a node has at least one service, that the search finds at most
`max(1, maxObservations)` rows. Three theorems have a hypothesis of their own,
given below with the reason.

`BackupScheduler_proofs`:

- `TypeCorrect`: `Spec => []TypeOK`. `TypeOK` is inductive as it stands: a CID
  is never held before the manifest exists, and `ipfs` only grows.
- `MutualExclusion`: `OneBackupAtATime` says that a process is `running`
  exactly when some call of it executes, and that at most one does; with
  `TypeOK` it is inductive.
- `HistoryWellFounded`, `DurableHeads`: `ParentsAnchored` is not inductive,
  since a transaction that is mined now was built long ago. `ChainInv` adds
  what was true in between: heads in memory and in files are anchored
  (`HeadsInv`); a call past the upload holds a manifest whose parent is anchored,
  and one past the anchoring holds an anchored one (`CallsInv`); pending
  transactions, which outlive their sender, carry only manifests whose parent is
  anchored (`PendingInv`); and so do all entries of the history (`HistoryInv`).
  The argument uses mutual exclusion nowhere, which is why it holds for
  processes that share a wallet.
- `LedgerImplemented`: `Spec => Ledger!Spec`. A mined backup maps to `Anchor`,
  or to a stutter when it was mined before; writing, truncating or patching a
  file maps to `Point`; all else stutters. `ChainInv` supplies that what a
  file is made to name is in the ledger.
- `ChainsBounded`: `ChainBounded`, assuming that no two calls belong to one
  process. Without that it is false (run `hydration`). The invariant is that
  a counter, wherever it goes together with a head (memory, `state.json`, the
  copy of a patch), is never lower than the depth of that head; a run has
  checked its counter before the upload, and hands it on afterwards
  (`CallBounded`). Any number of processes may share the files, since each takes
  over head and counter together.
- `CompletedDurable`: `CompletedIsDurable`, assuming `OneWriter`: one process (with
  any number of concurrent calls) and no patch, since a patch writes back what
  it read before. The manifest of a call that executes is the newest of all
  (here mutual exclusion is needed), and goes to the package first and to the
  state then (`CallDurable`).

`CarrierDaemon_proofs`:

- `TypeCorrect` needs two things beside `TypeOK`: a flow holds a pid from the
  spawn to its end, that of a process of its request which nobody else holds
  (`PidInv`), and a daemon not yet created has no flow (`FreshInv`).
- `OnlyManagedDaemonRuns`, `StopDrains`, `NoStepAfterStop`: while `stop()` waits, no
  daemon runs, and the flows it waits for are all there are (`StopInv`). The
  last one is an action property: each action of a flow that calls something
  is guarded by the shutdown signal, read after the await.
- `ProcessesKnown`: an executed request has a process that is not stopped *and
  about which no flow is still in its health check* (`ExecutedInv`), for that
  check may stop it.
- `RestoresAlone`: assuming `MaxConcurrent = 1`, which is the default and what
  `CarrierManager` uses. Then no daemon has two flows (`OneFlow`), and as long as no
  `stop()` gave up waiting only the current daemon has any (`DrainedIsQuiet`).

`ChatMemory_proofs`:

- `TypeCorrect`, `EveryMessageKept`, `RecalledOnce` and `AuditTrail` come from one
  inductive invariant, the conjunction of `TypeOK` and the three properties. They
  support each other: the prune may delete a row only because it is marked, a
  marked row is in the summary it names (`ParentCovers`), and so it is not lost; a
  raw row is in no summary, because marking and inserting are one transaction
  over the same batch.
- `RecentStayRaw`: `TailInv` extends the property from marked rows to those that
  a pass holds, and counts only rows that no pass holds: of these,
  `keepRecentRaw` are newer. A pass takes rows only from what it pulled and
  leaves the newest of that, so overlapping passes cannot take each other's
  tail.
- `PassesKeepUp`: `BacklogInv` bounds the rows no pass holds. A pass that pulled
  everything leaves exactly the ones it keeps; hence the condition `~overrun`.

`SnapshotContent` and `Recovery` (`Recovery_proofs`): `Invariance` is `[]Inv`.
`ManifestInv` and `RunInv` follow a backup: an entry's blob is the blob of the hash
it names (the uploader hashes what it uploads, not what was scanned), and each
content scanned or uploaded is one the file had during the run. `ChainInv` and
`RestoreInv` follow a restore: while the last manifest of the chain is downloaded,
its files that are neither left nor failed are in place. From these follow
`TypeCorrect`, `VerifiedIsSound`, `CleanVerifies` and `SkippedWasSaved`. Downloads of
earlier manifests need no invariant: the newest one names every file.

`SoulLifecycle_proofs`: `TypeCorrect` with `StageInv` (which commands come to which
step). `PendingKept`: a backup between its read and its write of `state.json` holds
the request that is pending, or somebody was writing when it read and makes the
two `torn` as soon as he has written (`PendingInv`).
`HealthyTrue`: the doctor's reads are of different moments, so the invariant
`SeenInv` says that what it has seen is still so, because nothing it reads is ever
taken back but by the loss of the directory.

`NodeLifecycle_proofs`, `Bootstrap_proofs`: `NodeInv` is about directories that are
not `raced`, or not `mixed`. Besides the types it says

- which operations may be under way together (`Apart`);
- what an operation on processes relies on at its step (`ReliesOn`: nothing of the
  service runs when it is spawned; all that still runs is left to be killed), and
  that what runs is in its pid file or about to be written there (`TrackedAt`);
- that an operation's entry is the one it found, or is gone (`EntriesOK`), and that
  a directory with a running service, or with a start under way, has a row in the
  table (`UsedHaveRow`);
- that key and configuration are a pair unless an installation is under way
  (`Paired`), and what each operation on files relies on (`FilesOf`: what an update
  has read still names the key; a configuration to be written has the key just
  made).

`NodesTracked` is `LiveIsTracked` and `ConfigNamesKey` for the node manager by itself.
`Bootstrap` uses its actions and adds steps between them; each step maps to
a step of the nodes or to none (`StepsMoveNodes`), so that `NodeInv` is reused, and
`BootInv` adds what a bootstrap or teardown relies on (`Sane`: no chain but a `bypassed`
one lives when hardhat is spawned or is funded when the key is generated), as
long as no two overlapped.

`SessionMemory_proofs`: `Invariance` is `[]Inv`, four invariants about one table.
`RightInv`: what is on its way into a summary belongs to its session. `SummaryInv`: a
hook that awaits a summary has read every row that any summary of its session
was made of (`HasRead`), in the table or in an exported file. `NoRepeat`: no two rows
that a prompt may be told say the same. `CoverInv`: what a compaction was made of is
hidden as long as it is there. `ContextsAreSound` says it of every context, with the bound
`MostRecalled`. That `InOrder` lists a set without repetition
follows from ranks being injective.

Only model-checked: liveness (`RunningIsReleased`, `TimerRearmed`, `FlowsEnd`,
`SetUpAtLast`), which needs fairness and `ENABLED` that the prover cannot do, and the
three properties that the code violates. Every invariant and every action
property of a passing run is the statement of a theorem; `ChainBounded`,
`CompletedIsDurable` and `OneRestorePerDirectory` under the
hypotheses named above, all of which the runs satisfy.

## Not modelled

- Cryptography, HTTP, argument parsing, text heuristics and rendering hold no
  state that a property would be about.
- The offline monitor: nothing registers a handler for its transitions, and what
  it finds is only logged and listed.
- The storage quota: one reservation file, one check that adds zero bytes. Its
  refusal for lack of space is thrown inside a `try` whose `catch` takes it for
  a failing `statfs` (`storage-quota-manager.ts:95-106`); sequential.
- Migrations: a crash among the statements of version 3, which commit one by
  one, makes the next run fail with a duplicate column
  (`migrations.ts:190-200`); sequential but for the crash.
- The archive store, which lists the backups requested through `BackupManager`
  but not those of the timer, and whose pruning ranks by whole seconds.
- Guardians, social recovery, carrier registration and the DID client: single
  transactions, or reads, whose rules are the contract's.

## Plan

Done: scheduler with ledger; snapshots and recovery with the CID resolver;
carrier daemon; life cycle; chat memory; session memory with search and context
building; nodes; bootstrap; and proofs of the safety properties of all of them.
Next:

1. Abstract specifications, with refinements to prove, for what is now stated as
   invariants: a store of messages for `ChatMemory` (each is raw or summarised, once),
   an agent's process for `CarrierDaemon`.
2. The archive store with the CLI's listings and prune, composed with
   `BackupScheduler`.
3. Social recovery and guardians beside `SoulLifecycle`.

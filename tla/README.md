# Hatchdoor in TLA+

This directory keeps the formal model of Hatchdoor's server: TLA+ modules
translated from `src/src`, the TLC configurations that check them on small
instances, and proofs for every instance that TLAPS checks. `PROJECT.json` is
the machine-readable index: every definition's source lines, every run, every
hazard, every theorem.

To run a check: `tlc -config VaultWork.cfg MCVaultWork.tla`; to check proofs:
`tlapm VaultWorkProofs.tla`. `MC<module>.tla` extends a module for TLC, and every
`.cfg` gives the constants of one instance.

## 1. The system

Hatchdoor serves self-hosted Markdown Vaults (folders of notes) to a web UI and to
MCP clients. One process owns a registry of Vaults; for each enabled Vault it
keeps a control block, a disposable SQLite read model (the cache), a file
watcher, and, for Git Vaults, a sync schedule. Background work (indexing, Git
syncs, commits) goes through one coordinator.

| Component | State it keeps | Operations | Who it talks to |
|---|---|---|---|
| Work coordinator, `vault_work.rs` | FIFO of (Vault, lane) positions, per position the active kind, pending kinds and flags; slot counters; drained Vaults | `request`, `request_if_idle`, `request_rerun_if_admitted`, `next_turn`, turn drop, `requeue_paused_index_turn`, `activate_vault`, `drain_vault`, boundaries, `shutdown` | asked by everybody; tells an observer that writes each Vault's status |
| Collection runtime, `vault_runtime.rs` | installed registry revision, control blocks (definition, revoked or not, write exclusion, statuses, watcher, a graph of links), the reconcile phase lock | `reconcile`, the lifecycle `reconcile_and_reconstruct`, `acquire_mutation`, status setters | drains and reactivates in the coordinator, retires cache rows, (de)schedules Git |
| Management core, `vault_management.rs` | none of its own | create, edit, enable, disable, disconnect, Git controls | commits to the registry, spawns one lifecycle per commit, waits for its answer |
| Registry, `vault_registry.rs` | one file: revision and definitions | compare-and-swap `commit`, `load`, recovery | management |
| Executor, `vault_executor.rs` | per-Vault index retry counts | runs Index, Git, Commit and Recovery turns | coordinator, control blocks, cache, Git, scheduler |
| Git scheduler, `git/managed_task.rs` | per Vault: next attempt, backoff, the checkout lease | `activate`, `deactivate`, `tick`, `sync_now`, `record_outcome`, leases | requests Git turns |
| Commit cooldown, `git/commit_cooldown.rs` | per Vault: a window and a debt of one turn | `try_admit`, `arm`, `clear`, `due` | forwarder, executor, tick |
| Managed sync, `git/managed_sync.rs` | a repository on disk, a remote | commit, fetch, merge or fast-forward, push, abort | the Git turn |
| Cache, `cache/` | one database for all Vaults: per Vault a snapshot row (participating, freshness, kind), its notes and vectors, saved embedding progress; the model it is stamped with | begin an attempt, reset for a model, build, save progress, mark stale, publish, disable, delete | Index turns, lifecycles, writers, model setup |
| Watcher and forwarder, `vault_watcher.rs`, `server.rs` | debounced events, a rescan fingerprint, a bounded broadcast channel | change intents | requests Commit and Index turns |
| Mutation core and file writes, `vault_mutation.rs`, `vault/write/` | the write ledger; files | guarded writes, multi-file rewrites with rollback, conditional atomic replacement | control block, cache, watcher |
| MCP batch, `mcp/tools/batch.rs` | the exclusions of several Vaults | ordered acquisition | control blocks |
| Startup, `startup.rs`, `model_setup.rs` | startup phase with its readiness latch, model-setup claim, the slot that holds the search model | choose, download, load, fail, retry, settle | executor, cache, lifecycles |

Reads, search, Markdown parsing, HTTP and MCP framing, the frontend and the
offline tools keep no state that a protocol depends on; `PROJECT.json`
("components") lists them with the reason each is left out.

What is hard here: everything is concurrent. Management mutations return before
their effects are complete and their lifecycles overlap; turns outlive the
control block they opened; an Index turn gives up its exclusion for minutes in
its middle; locks are dropped across awaits and taken again; observers run after
the lock whose state they report; schedulers compute under a lock and act after
it; files and repositories are shared with editors and remotes that take no lock; the
process may die between any two system calls. `PROJECT.json` ("hazards") names each such place with its line.

## 2. The modules

### VaultWork: the coordinator

`VaultWork.tla` is `vault_work.rs`. A position is `<<vault, lane>>`; `active`,
`pending`, `pendingKinds`, `queued` are the fields of `LaneQueue`, `present` the
key set of the Vault map, `running` the slot counters, `fifo` the FIFO. Each action
is one critical section of the queue's mutex:

| Code | Action |
|---|---|
| `request`, `request_if_idle`, `request_rerun_if_admitted` | `Request`, `RequestIfIdle`, `RequestRerunIfAdmitted` |
| `take_next`, `next_turn` | `NextTurn` |
| `Drop for VaultWorkTurn`, `complete` | `Complete`: also the end of a turn that panicked or was abandoned |
| `IndexYield::should_stop`, `requeue_paused_index_turn` | `AskToPause`, `RequeuePausedIndexTurn`: two steps, with anything in between |
| `activate_vault`, `drain_vault`, `shutdown` | `ActivateVault`, `DrainVault`, `Shutdown` |
| `index_lane_changed` and its observer `refresh_index_turn` | the set `announce`, and `PublishIndexTurn` |

The observer runs after the queue's lock is released, so a change only puts the
Vault in `announce`; the observer's step writes `shown` from the queue as it is
then, because `refresh_index_turn` reads the queue under the status lock.
`yieldedTo` is a history variable: whom a paused Vault stepped behind.

`WorkPromise.tla` is what the coordinator owes those who use it: sets of owed and
running work, no FIFO, no counters, no map of Vaults. `PromiseKept` in VaultWork is
its specification under the mapping that reads what is owed off the pending kinds,
what is busy off `active`, which Vaults are closed off `drained`, and the end off
`accepting`.

A request the queue turns away changes nothing and is no action. Kinds are a
parameter: a run has one Git kind, since the three of the code differ only in
name within the queue.

### CollectionLifecycle: the collection follows its registry

`CollectionLifecycle.tla` composes `vault_management.rs`, the registry's
revisions, the collection runtime's lifecycle, control blocks with their write
exclusions, the coordinator (as sets: its order is VaultWork's subject), the
scheduler's table, the cache rows' participation, and the turns and writes that
are under way. Each mutation commits a revision and spawns a lifecycle task. A
task's stages are the code's critical sections: `Reconcile` (take the phase
lock, install, unless superseded), `Retire` (drain, deschedule, drop the lock),
`PassWrites` and `PassTurns` (the two safe boundaries, Vault by Vault), `Fence`
(take the lock again, leave if superseded), `Converge` (retire rows, answer the
client), `Activate` (readmit, rebuild background work, drop the lock).

An Index turn opens its block, waits for the exclusion, reads, releases to embed,
takes it again and publishes; a Git turn holds it throughout; a foreground write
opens a block, waits, checks admission again, writes, and asks for an Index turn. A
turn that waits for an exclusion may find its block revoked.

`Overlap` says whether a client may commit before the last response arrived.
Both are real: the API has no such rule, the UI usually waits.

A Git turn is a sync or a commit: an activation asks for the one if it is due and for the other if the Vault's
source has Git but no schedule (`vault_runtime.rs:2189`), and a write asks for a commit (`server.rs:1553`).
`Versioned` are the Vaults with Git, `Managed` those on the schedule.

Simplifications: the scheduler's tick is left out, since what it asks for is as a manual sync's turn to the
collection (GitSchedule has it); an edit leaves a Vault's kind of source as it is; directories are readable, the cache
does not fail, the retry loop around the lifecycle (which keeps the phase lock) is
its last round, and a write's requests reach the coordinator at once.

### IndexPublication: one Vault's index follows its Markdown

`IndexPublication.tla` is the Index turn of `vault_executor.rs` with everything
that overtakes it. The Markdown is a version number `disk`; `row` is the Vault's
row of `vault_snapshots` (participating, freshness, searchable) with the version
it was built from; `holder` is the write exclusion; `moved` says that the mutation
generation is no longer the one the turn read; `status` is the search status
readers see.

| Code | Action |
|---|---|
| `acquire_mutation`, a guarded write, `mark_snapshot_behind_write`, `report_write` | `TakeWriteGuard`, `WriteLands` or `RefuseWrite`, `MarkBehindWrite`, `FinishWrite` |
| an editor outside the server, the debounced watcher | `OutsideEdit`, `ReportEvent` |
| `run_planned_turn`, `sync_rewrote_markdown`, `finish_git_turn` | `TakeGitGuard`, `RunGit`, `RecordGit`, `FinishGit` |
| `forward_vault_change_intent`, `finish_model_setup`, `schedule_index_retry` | `ForwardIntent`, `InstallModel`, `WakeRetry` |
| the Index turn up to the end of reading, under the exclusion | `StartIndex`, `TakeReadGuard`, `MarkOpening`, `OpenStatus`, `Scan`, `PublishStructure`, `ReleaseReads` |
| the embedding, without it | `turn.stage = "embedding"`, `PauseIndex` |
| the publication, under it again | `RetakeGuard`, `PublishRow`, `FinishIndex` |
| a turn without a model, a failing turn, its retry | `EndDeferred`, `FailIndex`, `EndFailed` |

The row and the status are written by different calls, so they are different
steps, and a reader may look between them. `landed`, `guarded` and `excused` are
history: the last version a write reported stale, the last version a write or a
sync made under the exclusion, and why nobody owes the catch-up.

Left out: the control block stays (its replacement is CollectionLifecycle's),
SQLite serves every status write, the search model is the same throughout, the
rescan fallback of the watcher is ChangeReports', and the coordinator is one flag
`pending` (its order is VaultWork's).

### GitSchedule: when a Vault's Git turns run

`GitSchedule.tla` composes `git/managed_task.rs`, `git/commit_cooldown.rs` and the Git
and Commit turns of `vault_executor.rs` for one two-way managed Vault. `entry` is its
`ScheduledVault` (due time, backoff, lease, last outcome), `cooldown` the window and its
debt, `pending` and `turn` the Git lane's work for it, `lock` the OS lock on the checkout,
`remembered` the durable record. Five tasks interleave: the worker (`OpenTurn` to
`RecordOutcome` or `FinishCommit`), the scheduler's tick (`TickReads`, `TickAsks`), the
cooldown's tick (`ReminderReads`, `ReminderAsks`), the forwarder (`ForwardIntent`) and a
lifecycle (`Edit`, `Disable`, `Enable`, `Settle`, `Activate`, `Republish`, `AskIfDue`; the
first one of a process, which meets no other task, is `Start`). Each tick is two steps because
the code computes under a lock and asks after it; an activation is three because it shows the
remembered outcome over the status that it read before it opened the queue. Notes are counted:
`written` of them were saved, `committed` are in the history. Time is two facts, that
the interval and that the backoff is over.

Simplified: admitting an intent and requesting its turn is one step, so is a manual
sync after its registry check, and so is the end of a turn with its outcome; Recovery
turns, a record that cannot be written, and a second Vault are left out.

### ManagedSync: what a Git turn does to the repository

`ManagedSync.tla` is `git/managed_sync.rs` step by step over a commit graph (a commit is
its tree and its ancestors), a worktree, an unfinished merge, the remote-tracking branch, the remote
and a recovery branch. `Prepare`, `Fetch`, `Reprepare`, `Compare`, then `Checkout` and
`MoveBranch`, or `BeginMerge`, `WriteMerge`, `CommitMerge`, `CleanMerge`, or the way back
(`RestoreFiles`, `ResetIndex`, `ResetHard`, `CompareAgain`, of which a reset that fails leaves the merge unfinished), then `Offer` and `Push`. `Save` is
anybody saving a file in the checkout, at any time; `OthersPush` moves the remote;
`SwitchMode` edits the Vault; `Crash` ends a turn anywhere, in the middle of a checkout
too, with any part of its files written.

libgit2 is modelled by the contract the code relies on: a safe checkout writes nothing
if it would overwrite a change; a merge records its state before it writes; a push
fast-forwards or says why not. Files are atomic; the base of a criss-cross merge is any
of the candidates; nobody rewinds the remote or aborts a merge by hand.

### NoteWrites: files, conditionally replaced and moved

`NoteWrites.tla` is `vault/write/`: a conditional write exchanges its temporary file
with the note, verifies what it displaced and undoes the exchange if that is not what
the plan read (`BeginWrite`, `Exchange`, `Verify`, `UndoExchange`); on a file system that
cannot exchange it checks and renames (`CheckFirst`, `RenameOver`); a file is created
without replacing, but an import always replaces (`PlaceFile`), whatever it found when it looked whether
the name is free; a move reserves its destination by an empty directory,
exchanges, verifies and may undo (`MakeGate`, `Swap`, `VerifyMove`, `UndoMove`). `op.tasks` is what an
update, creation, import, tag edit, rename or move still has to write, and `unwinding`
that it is rolling back what it did. Editors save and delete at any time; one call may
fail, or the process die, between any two.

Contents are sequences that say whose text they are and who rewrote it. Directories
and links outside the Vault, modification times and more than one asset are left out.
`late` is history: what editors saved inside a window of the operation under way, in which its next
step overwrites without another look (`Window`: an exchange and its undo, check and rename, an import's check and its
rename). `trampled` is what such a step then overwrote, and what a caller asked to overwrite; section 6 says
which windows the code's documents accept. An import whose description fails after its file is placed
(`attachments.rs:79`) answers an error over a written file; this is left out.

### InstanceStart: readiness, and the claim of model setup

`InstanceStart.tla` is `startup.rs` with its callers in `server.rs` and the executor:
setups take the claim, download, load, fill the slot and ask for indexing, or fail and
free the claim; Index turns report progress over the phase and leave each Vault
searchable or failed; whoever may have brought the last missing piece (the end of a
turn, of a setup, the task that watches the collection) runs `settle_startup`, whose looks (`vault_executor.rs:430`
to :444, taken as one: `Judge`), latch (`Latch`) and freeing of the claim (`FreeClaim`) are steps of their own per caller. `vaults` follows collection changes that are answered
in order. Downloads, percentages and retry limits are left out.

### Registry: definitions under revisions

`Registry.tla` is `vault_registry.rs` under the calls of `vault_management.rs`: a call
reads the file without the lock, decides, takes the lock, reads the revision again,
writes a temporary file, renames it over the registry and syncs the directory. Each of
these may fail, the reads as well (`ReadFails`), the process may be killed between any two, a power loss may take back a
rename that was not synced, and a kill leaves its temporary name behind.
`VaultDefinitions.tla` says what each mutation makes of the definitions; a Vault is added enabled or disabled.
That `commit` looks again whether the file needs recovery is in its guard, but the file does not become unreadable while
the process runs.
`RegistryPromise.tla` is what a client may rely on: a line of revisions, each made by
one call out of exactly the revision it named; a success is for ever; a refusal changed
nothing; only a storage failure leaves open whether the change was made. `PromiseKept`
is that specification with the file's line of revisions for its line.

`Predict` says whether clients may name a revision they have not been told of; the run
and the proofs say no (section 6 tells what happens otherwise).

### SnapshotBuild: the shared cache while models, Vaults and builds come and go

`SnapshotBuild.tla` is a build of `cache/vault_snapshots.rs` with its work in
`cache/populate.rs`. A note is one chunk; a vector records the text it embeds, the model
whose document format its reuse hash was made with, and the model that computed it.

| Code | Action |
|---|---|
| `prepare_for_embedder`, its failure (a warning), `RuntimeEmbedder::set` | `Load`, `LoadUnprepared`, `Install` |
| `replace_vault_snapshot_with_embed_layers_and_progress`, `publish_vault_structure_snapshot` up to the candidate | `Start` |
| reading every note, `prepare_note_for_embedding`, `preserve_existing_vectors`, `SavedEmbeddings::retain` | `Read` |
| `embed_prepared_note`, `invalidate_note_content_hash` | `Embed`, `EmbedFails` |
| `SavedEmbeddings::record`, its `Drop` | `SaveProgress`, part of every end |
| `IndexYield::should_stop` | `Pause` |
| `publish_vault_candidate` | `Finish`, `Publish` |
| `disconnect_vault_snapshot` | `Disconnect`, `DeleteRows` |

`raced` is history: a build took the epoch between `prepare_for_embedder` and the change
of the slot (section 6). A Vault may be disconnected at any moment, although the lifecycle first
waits for its turns, so that the cache's own fence, the attempt number, is what is
checked. Freshness and participation are IndexPublication's; the migration of the schema, the layer policy, moved slugs, links, tags and
time estimates are left out.

### ChangeReports: how a change of the folder comes to be known

`ChangeReports.tla` composes the watcher of `vault_watcher.rs`, the bounded channel that
carries its reports and those of writes, the forwarder of `server.rs`, and the graph of
links that a control block keeps between reads (`LinkGraphCache` of `vault_runtime.rs`). The
folder is a version number that an editor, a write or a Git turn moves, and that a Git
turn may take away and bring back.

| Code | Action |
|---|---|
| an editor; a write up to its report | `OutsideEdit`; `WriteLands`, `ReportWrite` |
| `run_vault_change_watcher` with `debounce_events`; a round of `run_vault_folder_rescan` | `ReportEvents`; `Rescan` |
| the broadcast channel of 64; `forward_vault_change_intent` | `Overflow`; `ForwardIntent` |
| a Git turn, `publish_local_content_after_git_success`, `set_local_content_status` with `rearm_watcher` | `RunGit`, `StatFolder`, `Publish`, `StartWatcher` |
| `VaultControlBlock::revoke` | `WithdrawAdmission`, `CancelWatcher` |
| `linked_index`: `watcher_running`, the load of `watcher_epoch`, the lock with `take_changes`, the build, the keep | `Ask`, `LoadEpoch`, `EnterGraph`, `Build`, `Keep` |
| the Index turn's read | `RunIndex` |

Of the channel a receiver has nothing of this Vault to read, a report, or a lag: reports
are not counted, and a lag may come whenever one is unread. `delivers` says whether the file system
sends kernel events; a Git turn that fails may have changed the folder and may ask for another Index turn; a watcher may fail to start; once its folder is replaced it hears nothing.
`due` and `owed` are history: the newest version that somebody was there to notice, and
that no Index turn has read the folder since. Which paths count as noise is left out.

## 3. The runs

| Run | Instance | Question and answer |
|---|---|---|
| `VaultWork` | 2 Vaults, a kind per lane, Git width 1 | is the queue exact under every order of calls, does it implement `WorkPromise`, does every admitted turn run, does every boundary and the shutdown come? yes (30 thousand states) |
| `LifecycleOverlap` | 2 Vaults without Git, 1 writer, 3 lifecycles, overlapping | does the collection end on the newest revision, and is a passed boundary one? yes (1.6 million) |
| `LifecycleInOrder` | 1 managed Vault, 1 writer, 3 lifecycles, one at a time | one write exclusion, schedule, cache retirement, activation, and does every lifecycle end? yes |
| `LifecycleExclusion` | the same, overlapping | one holder of a Vault's exclusion? **no** |
| `IndexPublication` | 1 Vault, 2 changes, 1 refusal, 1 Git turn, 1 failing turn, 1 retry | does a fresh row hold every write, is the status what the row supports, is every change caught up with? yes (435 thousand) |
| `GitSchedule` | 1 managed Vault, 3 events | is no commit debt, lease or remote failure lost, is backoff honoured, do notes get committed? yes |
| `ManagedSync` | 2 notes, 1 file outside the folder, 2 saves, 2 pushes by others, 1 fault | does every save and commit survive, do conflict markers stay out of commits, is a success on the remote, do both sides meet? yes |
| `NoteWrites` | 1 linking note, a moving note and its asset, 2 operations, 2 saves, 1 fault | is no save lost but in the named windows, and has a refused operation left nothing behind? yes (2.8 million) |
| `InstanceStart` | 1 Vault, 2 setups, 2 changes | is there a model past setup, does a setup keep its claim, does startup end? yes |
| `SnapshotBuild` | 2 Vaults, 2 notes, 2 models, 2 mishaps | one vector space, nothing of a removed Vault, no note without its vectors for good, search in the end? yes (446 thousand) |
| `Registry` | 2 Vaults, 2 clients, 2 revisions, 1 kill or power loss | does the store implement `RegistryPromise`? yes (503 thousand up to the names of clients and Vaults) |
| `ChangeReports` | 1 links read at a time, 2 changes, with and without kernel events | does the graph that a links read would use lack nothing reported, and is every change that was noticed indexed? yes (1.3 million) |

In most modules the type invariant is a conjunct of another property rather than a run's
property of its own (`BoundaryHolds`, `LeaseHasOwner`, `MarkersAreFenced`, `AllOrNothing`,
`ReadyHasModel`, `OneVectorSpace`, `GraphIsVouched`); those of VaultWork, IndexPublication and
Registry are proved.

The "no" is a place where documentation promises what the code does not keep;
`PROJECT.json` ("findings") quotes both sides and tells the trace. Section 6 has the other
disagreements met while modelling.

### Bounds

VaultWork's state is finite for a finite set of Vaults: a kind is pending at most once per
position. Two Vaults with a Git lane of width one contend for both lanes as
five Vaults would for width four; Index width is one in the code. The kinds of one lane differ
only in name within the queue; the proofs are for any kinds.

The lifecycles need three revisions for what they show: one that starts the process, one
that is superseded, one that supersedes it. Every Vault may start as absent, disabled or
enabled, with or without a cache row of an earlier process. With Git turns two overlapping Vaults are too many states
(over 6 million); the safety of the overlap run was also checked with one Vault that has Git (172 thousand), and both of its
properties are proved for any number. The run in order cannot show what a lifecycle loses by being superseded
(`vault_runtime.rs:2119`), nor a manual sync that acts on a registry read gone stale (`git/managed_task.rs:1077`): its clients
wait. Section 6 tells what happens then.

IndexPublication counts changes, refusals, Git turns and failures, because versions and
histories would grow without end. Two changes are the least with which one is read and
another overtakes the turn; they come in any mix of a write, an edit outside and a pull,
and the process may start on a row that is already behind. One failing turn meets the
retry and, at `RetryLimit` 1, leaves both answers of `IndexRetries` possible; the code's
limit is 5, and no step depends on its value but the comparison.

GitSchedule's `MaxEvents` bounds saves, failing turns, lifecycles, manual syncs, restarts and
outside locks together: three of them in any mix make, for instance, a failure, a
departure while it is reported, and a return. Backoff doubles once. Its safety was checked with
four as well (2.4 million states), the least for a disable, a restart, an enable and a save while
the queue is open, and is proved for any number.

ManagedSync needs two saves and two foreign pushes for a divergence that diverges again
while it is merged or pushed; a third file is outside the Vault's folder. NoteWrites needs
two operations so that the second finds what the first, failed or crashed, left; two
saves so that one can hit the exchange and one its undo; an import tries a free name and the asset's, with
`overwrite` and without. InstanceStart needs two setups
for a claim to pass from one to the other. Registry needs two clients and two revisions,
one of which the other call did not read; a leftover temporary name is met at `Nonces` 1.
SnapshotBuild's `MaxMishap` bounds edits, replaced models, failures, disconnections and kills
together; its safety was also checked with three of them (5.9 million states), InstanceStart's
with two Vaults (3.6 million). ChangeReports needs two changes for a folder that is brought back and
then edited; a second reader only waits for the graph's lock, and its safety was checked with two readers
and one change (1 million).

### Fairness

VaultWork assumes that the worker loop keeps taking turns (it is a loop in `server.rs`),
that a turn returns, and that an observer call runs; it assumes nothing of requests, pauses
or activations. What it shows, that every admitted turn runs (`EveryTurnRuns`), is what the other modules then assume as
strong fairness of starting a turn: the FIFO comes to a Vault again and
again, even if something else keeps disabling the turn in between.

CollectionLifecycle assumes that spawned tasks, turns and writes proceed, and strong
fairness where a task waits in a Tokio mutex, which serves its waiters in order.
IndexPublication assumes the same of the steps a write, a Git turn, an Index turn or a
task has before it. It assumes no write, edit, Git turn, failure or pause. That an embedding turn
ends its pauses follows from the code in that every slice embeds at least one chunk
and keeps it; IndexPublication does not count chunks, so there it is in the fairness of
`RetakeGuard`, and SnapshotBuild shows it (`EventuallySearchable`, with pauses that never stop).

GitSchedule assumes that its tasks go on, that turns start and return, and that intervals, backoffs and
outside locks end. ManagedSync assumes that a turn goes on and that a sync is started again
and again (the interval); faults are bounded, so the network is up in the end. InstanceStart assumes
that tasks and turns go on; SnapshotBuild that the process goes on, a model is loaded, and a
Vault whose index is owed gets its turn: a paused Vault is put back, a failed turn is
retried, a new process or model asks for every Vault. ChangeReports assumes that tasks go on and that an
admitted Index turn runs; not that anyone edits, that the kernel delivers, or that a links read comes.

Deadlock is checked in VaultWork and SnapshotBuild. The others may really stop: when the bounds are
spent and nothing is under way, nothing is left to do.

## 4. The proofs

Each proof module extends the module it proves about, finds an inductive invariant that TLC
had checked first, and goes action by action. The only assumptions are those of the modules
(`VaultWorkAssumption`, `LifecycleAssumption`, `IndexAssumption`, `RegistryAssumption`, `SnapshotAssumption`,
`ReportsAssumption`, `StartAssumption`, `ScheduleAssumption`, `SyncAssumption`, `WritesAssumption`: bounds are naturals, model values
differ, sets are not empty), which TLC evaluates in the runs; eight theorems say in their statement what else they need:
`Converges` that no Vault is managed, five about the collection that its clients do not overlap (`~Overlap`, as in
`LifecycleInOrder`), and the two about the registry that clients do not predict revisions.

`VaultWorkProofs.tla`, for every finite set of Vaults, every set of kinds and every width
of the Git lane:

- `TypeCorrect`, `QueueAgrees` (`QueueExact`), `BoundaryIsExact`, `LanesKeepTheirWidth`: one inductive
  invariant, `IInv`, is the conjunction of the parts. None is inductive alone: that a
  popped position has work needs that FIFO positions are exactly the queued ones; that `pendingKinds` stays exact
  when a turn starts needs that kinds are pending once; that a drain leaves the map
  right needs both.
- `PromiseIsKept`: every step of the coordinator is a step of `WorkPromise` or a stutter.
  The capacity conjunct is `LanesKeepTheirWidth`, and that a drained Vault starts nothing
  is in the invariant.
- `StatusShowsTheQueue`: a status that differs from the queue is one whose observer call is still to come.
- `PausedTurnsYield`: the invariant `YInv` adds why a paused Vault waits: every Vault it
  yielded to holds an Index position ahead of its own in the FIFO, so the Index lane, one
  wide, comes to them first.

`CollectionLifecycleProofs.tla`, for any number of Vaults, writers and lifecycles, one at a time or
overlapping:

- `BoundariesHold` (`BoundaryHolds`), from `WaitInv`: what a lifecycle that is not superseded has
  waited for stays so. Its revision is the installed one, so the blocks are those it left (`LifeInv`);
  a Vault it retired for good has none and is drained, so nothing is queued and nobody gets past the
  recheck under the exclusion, although writes and turns that opened the old block are still about.
  A superseded lifecycle may have waited in vain: a later one may have enabled the Vault again.
- `CollectionFollows` and `Converges` (`ConvergesOnNewest`), from `NewestInv` (the newest revision is installed or its
  lifecycle is still to come), `BlockInv` (the blocks are those of the installed revision) and `DrainInv` (whoever
  installed it will readmit what is drained). What is queued in the end is `QueueInv`: a Vault without a block has nothing queued
  and nobody who could ask, unless the lifecycle that removed the block is about to drain it. This needs
  that no Vault is managed: a manual sync asks without a look at the collection (section 6).
- With clients that wait for each answer (`~Overlap`), any number of requests, one after another, and of writes, turns and manual
  syncs between them. `OrderInv`: one lifecycle is unanswered, it carries the newest revision, and
  a manual sync past its check finds the Vault still enabled. What holds when all is settled is then a promise
  that somebody keeps until it is paid:
  - `HoldersExclude` (`OneHolder`), from `HeldInv`: an exclusion that is held is the block's, or the retired block's while its
    lifecycle waits for it; until it has, no other block can be built.
  - `SchedulesFollow` (`ScheduleFollowsCollection`), from `TrackInv`, and `RowsRetire` (`RetiredStaysOut`), from `RowInv`: rows
    are retired past the boundary, and `IdleInv` leaves no turn by then that could publish.
  - `ActivationsComplete` (`ActivationIsComplete`), from `AskInv`: an enabled Vault takes part, or a turn whose
    publication will count is about, or the lifecycle that built its block has yet to ask. A turn is seen from
    its opening to its publication, since an edit may carry the block over meanwhile (`FromInv`).
  - `ConvergesInOrder` is `ConvergesOnNewest` with managed Vaults too.

`IndexPublicationProofs.tla`, for every number of changes, refusals, Git turns and
failures and every retry limit:

- `TypeCorrect`, with which the exclusion has one holder, and he acts.
- `FreshRowsHoldWrites` and `PublishesFreshOnlyWhatIsNewest`, from `ReadInv`: a turn
  whose generation has not moved holds in `turn.read` every version made under the
  exclusion since, and none was made behind its back. Without the part that names the
  holder of the exclusion at each stage this is not inductive: a write between
  the two acquisitions has to be seen to move the generation first.
- `SearchClaimsAreBacked` and `StatusTracksRow`, from `StatusInv`: what the row has to
  be at each stage of the turn for the status the next step writes to be true.
- `CatchUpIsOwed`, from `OwedInv`: as long as the row is not current, one of the named
  parties still asks (a pending turn, an intent, an event, a retry, the model's setup,
  a write or Git turn that has not reported), or the Index turn under way will
  see it, or `excused` says why not.

`StorageProofs.tla` has a half for each of the two modules about what is kept on disk. Registry, for any Vaults, clients,
temporary names and bounds, when clients name revisions they were told of:

- `TypeCorrect`: the inductive invariant is in part about who is past the second read of
  the file: only the lock's holder, and nobody else changes the file.
- `PromiseIsKept`: the store implements `RegistryPromise`. What a call computed its change
  from was read after it was asked, so it is no older than the revision it names; if it is newer, the second read
  under the lock refuses it.

NoteWrites, for any finite set of linking notes and any number of saves, operations and faults. `WritesShape` says what contents, tasks
and operations are, and what each step has put where (`StepInv`: the temporary file holds the task's text, the
directory that reserves a name is still there, although editors save and delete at every step):

- `WritesKeepTexts` (`SavesSurvive`), from `TextInv`. That a text is on disk or in the sidecar is not inductive: an undo
  overwrites what is at the note. What it overwrites is the task's own text unless an editor saved there, and a rewrite carries the
  tag of what it replaces, so `TextInv` adds that until the write is judged a text with that tag is at another path, or is what was
  displaced. `LateInv` ties the windows to the operation: until it ends, what was saved in one of them is in `late`, so what an
  undo, a rename or an import overwrites at the note beyond what its write expects there is excused only if it came that late.
- `WritesAllOrNothing` (`AllOrNothing`), from `PlanInv` and `MarkInv`. `PlanInv`: journal and tasks together are the plan; moves come
  before rewrites and are undone after them; what an undo writes bears no mark of the operation. `MarkInv` brackets the notes
  that bear the mark and the paths that are away: going forward they are those of the journal, with the task's own from its commit point until it
  is judged; going back, no more than what is still to be undone. A refusal that would leave more is not a refusal: it is
  answered by "recovery", or the rollback is `broken`.

`SnapshotBuildProofs.tla`, for any Vaults, notes, models, contents and number of mishaps; one
part of the inductive invariant per theorem:

- `OneSpaceOfVectors`, from `Agrees`: unless `raced`, a running build was opened under the model
  that is in the slot now (nothing can load another while the epoch is held, and nothing loaded
  waits to be installed), the cache is stamped with it or not at all, and all that the build
  holds or has not saved is by it. An unstamped cache is then empty, so publishing may stamp it.
- `NothingOfTheRemoved`, from `Fenced`: a build of a Vault that is being or has been removed is
  not the newest attempt.
- `WholeOrWrittenAgain`, from `Whole`: what a build has left to embed is all that its candidate
  lacks; a structure-only build leaves every hash to be seeded away.

`ChangeReportsProofs.tla`, for any number of links reads and changes:

- `LinksAreVouched` (`GraphIsVouched`). Not inductive alone: `NextInv` says the same of a graph that is built and about
  to be kept (nobody else takes the reports meanwhile, `OneBuilds`); `Vouches` has, besides what holds under a live
  watcher, what must hold while one is being started, since the edits after it are compared with `due`; and `Arming`
  says who can hold the new epoch then: only a read that looked at the watcher before.
- `TypeCorrect`, with which a revoked block has no live watcher and is not starting one.

`InstanceStartProofs.tla`, for any Vaults, setups and changes of the collection:

- `ReadyMeansModel` (`ReadyHasModel`), from `ModelInv`: an embedding turn implies a model, so its report cannot
  move the phase past the terms without one.
- `ClaimIsKept` (`SetupKeepsClaim`): while no phase was overwritten, one setup at most is claiming and has the claim
  (`ClaimInv`), and the phase is "downloading" from its download to its end, so nobody latches over it (`PhaseInv`). A setup
  that fails has given its claim back before it shows the failure; setups start in order (`InOrder`), so
  whoever took the claim meanwhile came after it, which is what the race is named by. Latching and freeing are two
  steps, so `FreeInv` adds that whoever has latched and not yet freed is alone, over a claim nobody is setting up under.

`ManagedGitProofs.tla` has a half for each of the two modules about managed Git. GitSchedule, for any number of saves,
failures, lifecycles, restarts and manual syncs:

- `LeaseIsOwned` (`LeaseHasOwner`), with `TurnInv`: only a turn that is leased or has run holds the checkout.
- `CommitsAreOwed` (`CommitOwed`): each step keeps every debt, pays it, or is one of those that drop it.
- `RemoteFailureStands` (`RemoteFailureShown`), from `RemoteInv`: the status, or the remembered outcome under a
  pending status, is "remote" exactly while the failure is unresolved. This needs that the schedule's last
  outcome is the remembered one (`LastInv`), and that a disabled Vault has no turn whose outcome may still come (`QuietInv`).
- `BackoffHolds` (`BackoffIsHonoured`), from `AskedInv`: behind a Git turn under way only a user's request waits.

ManagedSync, for any files, saves, foreign pushes, faults, edits of the mode and crashes. `Shape` says what commits,
files and turns are, with `GraphInv`: what a commit reaches is closed. The rest of `SyncInv` is by theorem:

- `SuccessReachesRemote` (`SuccessIsOnRemote`) and `BranchesOnlyGrow` (`HistoryOnlyGrows`), from `RefInv`: what was fetched is
  behind the remote, which only moves forward; at a fast-forward the head is behind what was fetched, and what a push offers is in the
  head, although the turn read both several steps earlier; no result stands while a turn runs.
- `MarkersStayFenced` (`MarkersAreFenced`), from `FenceInv`: the repository says that it merges in exactly the steps of a merge and in
  what a crash in one leaves; while nothing is written, and once the files are restored, no file is marked; what is marked when a merge is
  abandoned is a file the merge wrote, so restoring these clears it; a merge is committed only without a conflict.
- `EditsSurvive` (`SavesSurvive`), from `SaveInv`: an abandoned merge that restores what it wrote restores over nothing that is not in the
  history. A file that a person saved meanwhile is told from the merge's own by its content, which is sound because a
  save is newer than all that commits, files and the merge's index hold (`OldInv`).

Only model-checked: all liveness. In Registry only clients that do not predict revisions are proved about.

## 5. Not modelled

The map covers the code of the protocols above, and a small share of the repository:
most of `src/src` is request handlers, read projections, parsing, SQL text, ranking, formatting and inline tests
(half of `server.rs`, `managed_sync.rs` and others), and has no state that two actors share. What
is left out that does keep state:

- MCP batches (`mcp/tools/batch.rs`) hold the exclusions of several Vaults; they take them in one
  sorted order and nobody else waits for one while holding one, so there is no cycle to look for.
- Which paths the watcher and its rescan take for noise, and how a folder's fingerprint is made.
- The write ledger (a write echoed by the watcher), transfer links' one map under one lock,
  credentials, sessions and settings, each replaced atomically.
- The first clone of a managed checkout, submodules and credentials of Git.
- Several chunks a note, moved slugs, layers, links and tags in the cache.

`PROJECT.json` ("components") has the reason for each part.

## 6. Disagreements met while modelling

One is a run (`LifecycleExclusion`). The rest are not, but a reader of the modules
should know them, because a property excepts them by name or leaves them outside its instance.

Overlapping lifecycles (`LifecycleInOrder` shows that all of these hold when clients wait for each answer):

- Retirement (`vault_runtime.rs:1999`): a lifecycle superseded at its fence never retires cache rows, and
  the newer one waits only for what it retired itself; a disabled Vault's late Index turn then makes its row
  participate again, though `vault_runtime.rs:2015` calls disable "the final writer".
- Activation (`vault_runtime.rs:2119`): only the lifecycle that built a control block asks for its
  background work; if it is superseded nobody does, and an enabled Vault stays without index and schedule.
- Scheduling (`git/managed_task.rs:1077`): a manual sync may put a Vault back on the schedule that a
  disable has just taken off, with its lease, and queue a Git turn for it, which then drops it again (the run of
  `ConvergesOnNewest` and the theorem `Converges` therefore have no managed Vault).

Indexing:

- A write refused for its precondition while an Index turn embeds moves the mutation generation,
  so the turn publishes stale over Markdown nobody rewrote, and nothing asks for another
  (`vault_runtime.rs:1144`, against `vault_executor.rs:898`). `CatchUpOwed` excuses exactly this and a turn
  that gave up.
- A replaced search model (`server.rs:927`): `prepare_for_embedder` wipes the cache and gives the
  epoch back before the slot changes. A build that was waiting starts in between under the old
  identity, embeds with one model and then the other, and publishes under the new stamp; later
  builds take its notes for unchanged. Both models have 768 dimensions, so nothing fails.
  `schema.rs:60` and the comments of the seed say no vector crosses. `OneVectorSpace` excepts it as `raced`.

Changes outside Hatchdoor:

- A links read asks whether the watcher runs and then loads the epoch (`vault_runtime.rs:1009`, :1013). If a Git
  turn's `rearm_watcher` has moved the epoch in between and not yet started the watcher, the read builds a graph with nobody
  watching and keeps it under the new epoch: an edit before the watcher starts stays out of links
  until the next report, though :995 says that without a watcher a graph is built for every read. `GraphIsVouched` excepts it as `straddled`.
- On a file system that delivers no events, an edit between the Index turn of the activation and the rescan's first
  readable round is in that round's baseline and never reported, though `vault_watcher.rs:190` says "the next readable round
  still notices what changed meanwhile". A pull does not report on the channel either; there only the rescan drops the graph.

Startup: an Index turn's progress report replaces the phase of a model setup that was retried on a ready instance
(`vault_runtime.rs:308`); startup then settles and frees the claim of the setup that still downloads, so a third can start beside it,
though `vault_executor.rs:445` says "the claim stays with that setup". `server.rs:949` frees the claim before it shows the failure, so a retry in between is shown as failed; once
`settle_ready` refuses it, its claim is never freed. `SetupKeepsClaim` names both races (`overwritten`). Choosing again
after Ready can replace the running model, though `model_setup_conflict` says a restart is needed.

Git:

- `CommitCooldown::clear` (`commit_cooldown.rs:121`) drops the debt of a save that was refused into a window
  opened by another turn's failure, against :45 "Cleared only by taking the turn". `CommitOwed` names it in `forgiven`.
- Enabling a Vault that was disabled when the process started opens its queue before the remembered outcome is
  shown (`vault_runtime.rs:2118`, :2158). A Commit turn in between publishes "ready" over the pending status: then, by when the
  status was read, either a remembered remote failure is not shown until the next sync, or an outcome older than a
  sync's is. `masked` in `RemoteFailureShown` names both.
- A failing Commit turn overwrites the remote failure that the status showed (`masked` in `RemoteFailureShown`); an edit while a Git turn
  runs lets the outcome arm the interval while its status is refused; an edit while a turn waits makes it a
  non-retryable failure, hence a day's wait.
- A process killed in a Pull-only fast-forward between `checkout_tree` and the branch's move (`managed_sync.rs:790`)
  leaves the remote's content over the old head, and every later sync is refused as dirty until a person
  repairs it. `EventuallyInSync` has it under what needs a person.

Files:

- An import without `overwrite` looks whether the name is free (`vault/write/attachments.rs:68`), collects the layer markers, and
  commits with `Commit::Replace` (:75, `fs_ops.rs:349`): a file that an editor or a sync tool saves under that name in between is
  overwritten and lost. "docs/user-vault/03 Reference/MCP tools reference.md":411 says of an upload link that the check runs again
  when the file arrives, "so a file that appeared in between is refused with `409 write_conflict` and not overwritten", and
  "How to import and work with attachments.md":35 that an import "never overwrites"; both hold but for this race.
  `create_note` closes the same race by refusing an occupied name at the commit (`notes.rs:282`).
- A save between the commit exchange and its undo is unlinked with the undo, though `fs_ops.rs:520` says it is swapped back.
- The fallback without exchange checks and renames in two steps, and so does a creation where the file system cannot refuse an
  occupied name (ADR-26 accepts both).
- A crash between the exchange and its verification leaves unverified text in place and the displaced save in a sidecar.

`SavesSurvive` excepts a save only in these windows (`Window`), and only if the operation under way then is what overwrote it.

Registry: `add` has no revision check on its first read, so a client that names the next revision before
it has been told of it overwrites, without a refusal, the change that made it (`vault_registry.rs:778`; the API reference says
"one change never overwrites another"): `Predict`. A directory sync that fails after the rename tells the caller of a failure that
is on disk, and the runtime follows only at the next mutation or restart.

## 7. Plan

Done: the coordinator, the collection, the index of one Vault, the shared cache, change reports, the registry, startup,
the sync, the Git schedule and note writes, all with proofs, two of them of refinements.

What would add most from here:

1. The collection's promise to its clients as an abstract specification that
   CollectionLifecycle implements when mutations do not overlap.
2. Several chunks a note and the layer policy in SnapshotBuild.
3. Recovery turns and a second Vault in GitSchedule.

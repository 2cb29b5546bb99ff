# griffr in TLA+

TLA+ models of the parts of `griffr` that decide whether a game install survives
concurrency, failures and interruption: the scheduler that runs every command's work, the
protocols that bring files, archives, patches and managed resources to disk, and the change
protocol around an install. Paths below are relative to the repository; `runtime/` is
`crates/griffr-runtime/src/`, `cli/` is `crates/griffr-cli/src/`.

## 1. Inventory

| Component | State | Operations | What makes it correct |
|---|---|---|---|
| Task graph (`runtime/task_pool/graph`) | nodes with state, counters, dependents and waiters, token bindings, `unresolved` | build, start, mark running, finish (success, failure, continue, expand) | dependencies first, failures reach what needs them, exact counters, every batch ends |
| Admission (`runtime/task_pool/scheduler/queue`) | two priority queues, permits, volume use, storage reservations, mutation paths, an admission cache, cursors | push, pop (selection and acquisition), release, requeue | permits balance, volume policies, no two tasks on nested paths, no overcommitted disk, exact cache, no starvation |
| Coordinator (`runtime/task_pool/scheduler.rs`) | event channel, bounded ready frontier, retry counters, runner group | route, dispatch passes, apply results | ends when the graph does |
| Request routing (`scheduler/routing*.rs`, `volume*.rs`) | volume cache | map a task to its resource request | a request names every resource the body uses |
| Task bodies (`runtime/task_pool/runner`) | attempt counters in the payload | run; return success, failure, continuation or expansion | retries are bounded, the next source follows the failed one |
| Archive plan and retention (`archive_plan.rs`, `types/archive.rs`, `download/extractor`) | range cache, prepared session, shards, volumes | fetch a range, extract a shard, prune, rebuild a volume, clean up | readers keep their ranges, control files last, a kept volume is verified |
| Downloads (`task_pool/download*.rs`, `artifact.rs`) | partial file, attempt, running hash | resume, retry, verify, rename | only verified content gets the final name |
| Reuse and VFS (`runtime/files`) | manifests, records, baselines | plan, probe, link or copy, remove obsolete, prune, publish | nothing the launcher does not own is deleted, a record describes the disk |
| Install change (`runtime/install_change`) | `.griffr/state.json` | start, resume, advance, finish; launch barrier | no marker means a whole install |
| Change commands (`cli/commands/install`, `update`, `verify.rs`, `predownload.rs`, `batch.rs`) | local release plan, launcher metadata | install, update, verify, repair, resume, predownload | metadata last, an unfinished change can be closed |
| Patch apply (`runtime/patch_apply`, `fs_ops/patch_manifest`) | `plan.json`, staged payloads, deferred files, external asset root | plan, extract, relocate, apply entries, delete, commit, clean, recover | no entry loses its source, a resumed patch ends like an uninterrupted one |
| YoStar backend (`yostar_files.rs`, `yostar_metadata.rs`, `cli/commands/yostar.rs`) | `manifest.json`, launcher config, marker | install, update, repair, detach, uninstall | what launch accepts is one whole release |
| Account switch, launcher | directories, a child process | copy, start | guarded single operations |
| GUI, CLI parsing, debug and news commands, progress, API clients, core types | none the others depend on | rendering, HTTP, parsing | outside the models |

How they interact: a command builds a task graph and hands it to the coordinator, which
routes ready nodes into the admission queue, dispatches what it admits and applies the
results to the graph; a result may add nodes. Task bodies meet in the range cache, the
session of an archive, the group of reuse volumes and the destination paths. Around the
graph the command writes the change marker first and the launcher metadata last. Commands
meet each other only through the disk, across crashes and releases.

Hard behaviours: dynamic expansion with cascading cancellation; results in any order;
permits that are borrowed, requeued and released; caches that age; locks released between a
decision and the deletion it allows; crashes between any two writes; a release published in
the middle of a change; resumption by another command than the one that was interrupted.
`PROJECT.json` lists these hazards at their lines with the properties aimed at them.

## 2. Modules

| Module | Models | Checked by | Proved in |
|---|---|---|---|
| `TaskGraph` | `graph/builder.rs`, `graph/exec`, the graph side of `run_graph` | `MCTaskGraph` | `TaskGraphProofs` |
| `Admission` | `scheduler/queue`, the dispatch pass of `run_graph` | `MCAdmission` | `AdmissionProofs` |
| `Routing` | `scheduler/routing.rs`: the requests of five kinds of task | `MCAdmission` (they drive `Admission`) | |
| `InstallChange` | marker, Hypergryph commands, resource baseline, launcher metadata | `MCInstallChange` | `InstallChangeProofs` |
| `ArchiveRun` | one archive: range cache, shards, retention, cleanup | `MCArchiveRun` | `ArchiveRunProofs` |
| `PatchApply` | one patch: plan, graph, space check, asset root, recovery | `MCPatchApply` | `PatchApplyProofs` |
| `FileTransfer` | the tasks that ensure one file: check, reuse, copy, download, archive repair | `MCFileTransfer` | `FileTransferProofs` |
| `EnsureFile` | the abstract promise `FileTransfer` implements | `MCFileTransfer` | `FileTransferProofs` |
| `FileTree` | files and directories below an install root | through its users | lemmas in the proofs of its users |
| `ManifestUpdate` | `update_via_manifest`: blocking and obsolete files around the ensure batch | `MCManifestUpdate` | `ManagedFilesProofs` |
| `ManagedResources` | `files/vfs/setup.rs`: Persistent and StreamingAssets with record and pending change | `MCManagedResources` | `ManagedFilesProofs` |
| `Yostar` | a YoStar install over its life | `MCYostar` | `YostarProofs` |

The pieces compose by abstraction: a step of `InstallChange` that delivers files is what
`ManifestUpdate`, `ArchiveRun` or `PatchApply` show in detail, bringing one file to its
content inside `ManifestUpdate`, `ManagedResources` and `Yostar` is what `FileTransfer`
shows to implement `EnsureFile`, and the tasks of all of them are ordered by `TaskGraph`
and admitted by `Admission`. `MCAdmission` composes `Routing` with `Admission`; `Yostar`
and `ManifestUpdate` extend `FileTree`.

An operator with an underscore in its name is a faulty variant of the definition after it:
a defect that code could plausibly have, and that the property named beside it in
`PROJECT.json` exposes. No specification uses one. Every specification with
variables of its own but `EnsureFile` states a `TypeOK`, which is proved (`RootTypeOK` in
`ManagedResources`, whose names carry `Root` or `Command` where `ManifestUpdate` has the
plain one: `ManagedFilesProofs` extends both, which share no state, and no theorem is about
both).

### TaskGraph

A node is its index. `state`, `remaining`, `dependents`, `waiters`, `waitingLeft` and
`resume` are the fields of `ExecNode`; `unresolved` and `bindings` those of the graph.
`AddTask` and `Start` are the builder; `MarkRunning` the dispatch; `FinishSucceeded`,
`FinishFailed`, `FinishCancelled`, `Continue` and `Expand` the arms of `finish`;
`RejectExpansion` an expansion the code refuses (ids exhausted, a token bound twice or
not at all, a cycle through a token), which ends the batch. The recursive cascades of
`cancel_node` and `notify_waiters` run inside one call, so each is one step, written as
the least set closed under the recursion (`Doomed`, `Settled`). `deps` and `parent` are
history for the properties. Payloads and sinks are left out.

### Admission and Routing

A task is routed (`Push`) with the request `Routing` builds for its kind, popped by the
selection of `pop_runnable` (run-class schedule, priority, continuation burst, network
schedule, lookahead and the key of `runnable_index`), takes followers into an MD5 batch, is
submitted or rejected by the blocking pool, preallocates, and releases its permits. The
cache is a record that is built once, updated as tasks leave the queue and dropped on
events, exactly where the code does. Time is three ages: fresh, past the write reservation
delay, past the five-second bucket. `free` is the disk itself, `Probe` what the cache read
of it.

### InstallChange

Disk state: file contents, the version in `config.ini`, the manifest in `game_files`, the
marker, the resource baseline and its pending file, the patch plan with staged payloads.
A command is a record with a step; each step is one durable effect or one check, so a
crash can fall between any two. `Install`, `Update`, `FinishUpdate`, `ResumePatch`,
`DiscardPatch` and `Verify` plan against the live release with the guards of their
functions; `Ensure`, `Delivered`, `PlanPatch` ... `FinishChange` carry the plan out;
`Fail` is a step the code refuses. `Crash`, `Damage` and `PublishRelease` are the
environment.

Abstractions: one command runs at a time and the install has one target; a content is a
number and a file has the same size in every release (the case a size check cannot see); a
file that is written gets the content it should have; every patch base is the old file of
its own entry (`PatchApply` has the others); index manifests and `package_files` are left
out; `install` into a used directory stands for `--force`.

### ArchiveRun

Bytes are units of the concatenated volumes. `OpenArchive` reads the directory from the
tail, plans ranges and shards with the cursor arithmetic of `layout` and `archive_plan`;
fetches, shards, prunes, retention and cleanup are the tasks of the archive graph, each
split where it releases the session lock, so a shard may decide what is still needed and
prune later. A fetched range may have the right length and wrong bytes, a range may be
given up, and a crash leaves range files, temporary volumes and committed entries for the
next run.

### PatchApply

`SavePatchPlan` chooses the source of every entry, checks the graph for cycles and computes the peak
of every volume; `Extract`, `Relocate*` (two asset roots, a link), the entries as a graph
or one by one after a crash, base release, deletes, the deferred `config.ini` and the
cleanup follow, each durable effect a step. Recovery is the plan of the next run from what
is on disk. Contents are old, new or absent.

### FileTransfer and EnsureFile

`tasks` is the set of live tasks of one file with their payloads; a task is replaced by the
tasks it returns. `groups` holds the counters of `ReuseCandidateGroup`, `part` the partial
download, `session` the archive repair. A verification can be by hash, by size or skipped;
sources are on the volume of the destination or elsewhere and can change under the run;
the server answers with a range, from zero, or not at all; chunks are hashed before the
writer has written them. `EnsureFile` keeps the destination and the report only: until the
run reports, the file changes only to its expected content, and success is reported only
for a file the chosen check accepts.

### FileTree, ManifestUpdate

A tree maps each path to nothing, a directory, a link or a content; a file and a directory
of one name exclude each other. The command removes obsolete files in two passes around
the ensure batch, one file or directory at a time and only where the file still holds what
the current manifest lists; it can stop after every step and is repeated from the start.
`unix` chooses what a path below a file means to the system calls.

### ManagedResources

A run plans from manifests and record, writes its intent, brings files to their content,
publishes manifests, prunes what the last finished run managed and replaces the record. The
server, the game and the user act in between. `kind` is the root: Persistent with its
preference manifests, or StreamingAssets with its pending baseline.

### Yostar

`File[r]` and `Version[r]` are the releases; a job goes through the blocking pass, one
batch per CDN root, the obsolete pass and the two metadata files under the marker. Two
releases may share a version and differ in their files, the case in which a manifest has to
be compared by its basis. Files no source delivers, crashes, user edits, `detach` and
uninstall are included.

## 3. Runs

| Run | Shows |
|---|---|
| `task_graph` | Two built and up to five nodes, four shapes of expansion, one retry: types, exact counters, dependency order, complete failure, parents after all their children, and with fairness that the batch ends. |
| `admission` | Two verifications that batch on an Exclusive volume, an archive range, a patch and a cross-volume extraction that share the space of a Mixed one: permits, policies, paths, storage and cache, and no deadlock. |
| `admission_liveness` | A retry that comes back for ever beside a hardlink and a reuse probe, with the code's burst of 4 and lookahead of 64: every task runs. |
| `install_change` | Three releases (the last without a resource index), patches between neighbours, all deliveries, deferral, two crashes or damaged files: no marker means a whole install, modified files are kept, repeated `verify --repair` closes a change. |
| `install_repair` | One release, both resource policies, every scope but `all` (section 6), three faults: a started repair is not forgotten. |
| `archive_run` | One two-volume package, local or remote, kept or not, with one fault and one crash: plan arithmetic is exact, ranges and staging stay while needed, control files come last, running again finishes. |
| `patch_apply` | Three entries with shared, deleted and overwritten bases, with every option of roots, one failing run and one crash: sources stay, `config.ini` last, the space check covers the use, no file is lost, running again ends. |
| `file_transfer` | One file, three sources, five sets of options, two faults, one crash: one writer, exact hash, refinement of `EnsureFile`, running again succeeds. |
| `managed_resources` | Two releases of two groups, both roots, every selection, one change, failure and crash: record and disk agree, nothing is orphaned, repetition converges. |
| `manifest_update` | Three old and five new manifests over every tree of old, foreign and linked entries, on both platforms, stopped twice: transitions prepared, update complete, only owned files deleted. |
| `yostar` | Three releases, two CDN roots, two crashes, three undelivered files, one edit: launch accepts one whole release, deletions are proven, nothing old remains. |
| `yostar_stuck` | Ends in a violation: an update killed between its two metadata files cannot be closed until a newer release is served, because the versions differ and every command reads the metadata before the marker (`yostar_metadata.rs:232`; `docs/DESIGN.md:63` says resume commands resume it). |

### Bounds, and why they are enough

- `task_graph`: `MaxNodes` stands for `u32::MAX` and is reached, so the refusal of an
  expansion that does not fit is exercised; five nodes hold a parent, an expansion and an
  expansion inside it; one retry, since a budget only repeats the step.
- `admission`: each instance has a running task, a waiting one and one that is preferred on
  each volume. The two verifications differ in name only, so `SYMMETRY Twins` loses
  nothing, and one task of class `AsyncIo` makes the network cursor irrelevant, so
  `VIEW WithoutCursor` leaves it out. One task saves to a volume, so the limit of one
  saver is not contested. `ContinuationBurst`, `Lookahead` and capacities are small so that
  both sides of each limit occur; `admission_liveness` has the code's values.
- `install_change`: three releases let a change be superseded twice, two faults a crash
  during the recovery from a crash. Patches carry no `config.ini`, and the default scope
  and policy are used, because section 6 describes what the other choices do.
- `archive_run`: four entries, of which one spans the volumes, one is excluded and one is a
  control file, cut into two or three shards; a fetch overlaps the cache on either side.
- `patch_apply`: three entries make a chain and a cycle through an overwritten base.
- `file_transfer`: two units are a resumed and a remaining one; three volumes let one win,
  one lose and one be unusable for links; two faults exhaust the retry of one attempt.
- `managed_resources`: an entry in both groups, one that changes, one that goes, an old
  document without a version. `CHECK_DEADLOCK FALSE`, here only: the commands of a root may
  all be refused, and then nothing more happens.
- `manifest_update`: two levels below the path that changes kind, the least that needs
  directories removed and created in order.
- `yostar`: files and directories change places between releases; two releases share a
  version; two crashes let a recovery be interrupted. Contents differ in size (section 6).

### Fairness

- `TaskGraph`: the coordinator keeps dispatching and every dispatched task reports (the
  runner turns panics into failures); retries are bounded by `MaxContinues` as by the
  budgets of the tasks.
- `Admission`: passes go on while the queue is not empty; the blocking pool is not full
  every time it is asked (strong fairness of `Submit`); a submitted task finishes.
- `InstallChange`, `ManagedResources`, `Yostar`: a running process makes progress and the
  user keeps giving the command; the strong fairness is that of a user who repeats a command that
  can be run again and again, not of the program.
- `ArchiveRun`, `PatchApply`, `FileTransfer`: ready tasks run, and the command is started
  again after it failed. Faults and crashes are not fair and bounded.

## 4. Proofs

Each theorem holds for every value of the constants that satisfies the named assumption of
its module. `GraphInvariant`, `AdmissionInvariant`, `ArchiveInvariant`, `UpdateInvariant`,
`RootInvariant`, `YostarInvariant`, `PatchInvariant` and `TransferInvariant` state an
inductive invariant, `IInv` (`RootInv` in `ManagedResources`); the others follow from them
or from an invariant proved on top of them, the action properties from the invariant and one
lemma per action. A theorem with a hypothesis beyond the module's assumptions names it
(`SizesTell`, `RepairScopes`, `Forward`).

| Theorem | States | Assumption |
|---|---|---|
| `GraphInvariant`, `GraphTypes` | `[]IInv`, `[]TypeOK` | `GraphAssumption`: an expansion's nodes depend on earlier nodes of it and bind at most one token each |
| `DependencyOrder` | `[]DependenciesFirst` | |
| `FailurePropagation` | `[]FailureReachesDependents` | |
| `LoopCounter` | `[]UnresolvedExact` | |
| `EndedIsFinal`, `ReadyStays` | `TerminalIsFinal`, `ReadyIsDispatched` | |
| `ParentsInvariant`, `ParentsComeLast` | `[]PInv`, `[]ParentAfterChildren` | |
| `AdmissionInvariant` | `[]IInv` | `RequestAssumption`, `ConfigAssumption`: finitely many tasks with well-formed requests, policies that let something run |
| `PermitsAreExact` | `[]PermitsExact`, the first half of `Accounting` | |
| `WorkIsIsolated` | `[]WorkIsolated` | |
| `CacheInvariant`, `AdmissionTypes` | `[]CInv`, `[]TypeOK` | |
| `AccountingHolds` | `[]Accounting` | |
| `NothingOvercommitted` | `[]NoOvercommit` | |
| `CacheIsExact` | `[]CacheExact` | |
| `InstallTypes` | `[]TypeOK` | `InstallAssumption`, `NoChangeAssumption`: releases, manifests and indexes are sequences, an index owns no core file |
| `ModifiedIsKept` | `ModifiedKept` | |
| `RepairIsKept` | `[]RepairKept` | those and `RepairScopes`: one release; with scope `all` neither scope `core` nor a package-only policy |
| `LaunchIsWhole` | `[]LaunchComplete` | those and `Forward`: no patches, the resource index is always used, scopes `default` and `all`, no core file returns to an earlier content, no path moves unchanged from an index to `game_files` |
| `ArchiveInvariant`, `ArchiveTypes` | `[]IInv`, `[]TypeOK` | `ArchiveAssumption`: volumes and entries are not empty, volume ends increase, the directory lies in the archive, limits are natural and a shard's are positive, no control file is excluded |
| `ReadersSafe` | `[]ReadersKeepRanges` | |
| `StagingSafe` | `[]StagingWhileExtracting` | |
| `ControlFilesLast` | `[]ControlsLast` | |
| `PlanIsExact` | `[]PlanExact` | |
| `PatchInvariant`, `PatchTypes` | `[]IInv`, `[]TypeOK` | `PatchAssumption`: finitely many files, entries are a sequence of distinct ones, diffs name files, `config.ini` is no file of the asset tree |
| `NothingIsMissing` | `[]NothingMissing` | |
| `ConfigComesLast` | `[]DeferredLast` | |
| `AssetsAreKept` | `AssetsKept` | |
| `WavesAreExact` | `WavesExact`, the first half of `PeakCoversWaves` | |
| `PeakIsCovered` | `[]PeakCoversWaves` | |
| `UpdateInvariant`, `UpdateTypes` | `[]IInv`, `[]TypeOK` | `TreeAssumption`, `UpdateAssumption`: paths are closed under parents, manifests list no foreign content |
| `TransitionsPrepared` | `[]TransitionsReady` | |
| `UpdateComplete` | `[]Complete` | |
| `DeletesOwnedOnly` | `OwnedOnly` | |
| `RootInvariant`, `RootTypes` | `[]RootInv`, `[]RootTypeOK` | `ManagedAssumption`, `ContentsAssumption`: on documents, contents and bounds |
| `RecordIsTrue` | `[]RecordTrue` | |
| `NothingOrphaned` | `[]NoOrphans` | |
| `YostarInvariant`, `YostarTypes` | `[]IInv`, `[]TypeOK` | `TreeAssumption`, `YostarAssumption`: manifests list paths and contents of the tree, versions are positive |
| `YostarLaunchWhole` | `[]LaunchWhole` | those and `SizesTell`: where two releases differ at a path, so do their sizes |
| `YostarProvenOnly`, `YostarOldRemoved` | `ProvenOnly`, `OldRemoved` | |
| `TransferInvariant`, `TransferTypes` | `[]IInv`, `[]TypeOK` | `TransferAssumption`: finitely many sources, natural sizes and budgets |
| `WriterIsAlone` | `[]OneWriter` | |
| `HashIsExact` | `[]HashIsOfFile` | |
| `TasksImplementEnsureFile` | `ImplementsEnsureFile`, the refinement | |

Why the properties are not inductive, and what was added:

- **TaskGraph.** Dependency order follows from the countdown in `remaining`, and the
  countdown is right only if every unmet dependency still lists the node among its
  dependents. `IInv` joins the types with `Shape` (what exists and where edges may point),
  `Edges`, `RemainingExact`, the exact `unresolved`, dependency order and failure
  propagation. The lemmas are about closures (`ClosureFacts`, `DoomedFacts`,
  `SettledFacts`), about counting (`RemoveAll`, `ReleaseExact`), and one per action.
  That parents come last rests on `IInv` and on who reports to whom (`Reporting`,
  `Chained`): a child that is not a leaf is followed by one of the same expansion that
  depends on it, so the greatest child that has not succeeded is a leaf its parent still
  counts. A success settles a chain of parents, which has one end (`ChainEnd`), so no
  waiting parent is told twice by one result.
- **Admission.** The counters are exact only because a task is in one place at a time: once
  in a queue, or among those that hold permits (`Waits`, `Holds`), so that a release never
  subtracts what was not added and the saturating subtraction never saturates. Isolation
  then follows at the moment of acquisition: `can_acquire` reads counters that are exact.
  Of the selection this part uses only that what it takes can be acquired, of the admission
  cache nothing: a stale cache can cost fairness, not isolation. The bytes need the cache.
  `CInv` says that a cache in use is a `Snapshot`: its counts are those of the queue
  (`Counted`), it lists every writer that has waited, or knows that none can come to have
  waited before it is rebuilt (`Watched`), and what it probed on a volume exceeds the free
  space at most by what tasks at work have taken since (`Probed`). With the reservations
  exact (`StorageExact`) what it admits fits beside the rest, which is `NoOvercommit` again.
  The byte sums are folds over sets of tasks; the lemmas on `Bytes` say what one task more
  or less, a disjoint union and a larger set do to them, from the recursion of the fold and
  well-founded induction on subsets.
- **InstallChange.** The types carry one fact more, that a damaged file is missing or holds
  no release's content (`DamagedGone`); with what a command plans (`Planned`) this gives
  `ModifiedKept`, because a removal outside a delete list compares content first. A repair
  is kept because whatever is still owed is among the files the marker makes the next
  command check (`OwedCovered`); that all markers ask for the same files is where
  `RepairScopes` comes in. `LaunchComplete` needs the whole life of an install: an
  undamaged file of the stored manifest has the content it has there or in a later release
  (`Between`, in `Stored`), each step of a command has brought the files it passed to their
  goal and advanced the metadata in order (`Progress`), and what a marker's removal leaves
  is one release (`Finished`). An update trusts an unchanged entry by its size, so `Between`
  has to give its content: it lies between two releases that agree on it, and by `Forward`
  those between agree as well. The three releases of `MCInstallChange` satisfy `Forward`
  once `Patches` is empty; the other hypotheses are those cases of section 6 in which the
  code does not keep the promise, and with patches the property stays with TLC.
- **ArchiveRun.** A prune acts on a note made before the lock was released. That it takes
  nothing from a reader needs every note still to be used to name what the shards with a
  slot read, and every shard that may still read to hold its slot (`Slots`): all slots are
  taken when the plan is made, and giving one up leaves older notes naming more. A volume is
  touched when its readers are done, and its note names the volumes not saved yet
  (`SavedVolumes`). The staging directory goes only after a failure is stored (`Staged`). What a
  shard still has to extract is of its plan, and the rest is installed (`Extracted`), which
  with the edges of the graph gives `ControlsLast`. `Types` says more than `TypeOK`: the plan
  is that of the directory (`Phases`), fetched and cached ranges lie in one volume, a range is
  cached once, `active` counts the shards between their begin and their end. A step touches
  few variables (`StepKinds`, `ShardMoves`), so each part is shown per kind of step.
  `PlanExact` is about the code's loops, which are folds over sequences of ranges, entries
  and shards. Each fold is unrolled once (`FoldExists`, `FoldHolds`), by induction on
  a set of numbers; `CoveredIs`, `SubtractIs` and `MergedIs` say what the cursor passes
  of `range_covered`, `subtract_cached` and the merge of requests return,
  `RequestsAre` joins them, and `PartitionIs`, `AllocateStepIs` and `ShardsAre` follow the
  division into shards from the groups of one volume to the list.
- **PatchApply.** That no entry loses its source cannot be seen where the entry is applied:
  what it needs was staged, moved with the asset tree, or kept by the deletes before. `Now`
  is what a file holds wherever the move of the tree has got to (`Roots`: a copy equals its
  source until the source goes, and the link comes last), and `Supply` says that every entry
  still to come is there or has its payload and its base by `Now`, from the first extraction
  on. A commit keeps it because whoever overwrites a path has been waited for (`Work`); as
  a graph that is the guard, after a crash it is the order of the waves. That order is
  part of what `WavesAreExact` rests on: the fold of `entry_wave_indices` is unrolled
  over the number of waves, and `WaveStepCounts` carries the count-down (`Counting`: the
  counts are those of the dependencies left, what is ready is all that has none) through one
  of them. It ends when nothing is ready or when every entry had a wave; as the waves are
  disjoint (`SumOfWaves`) `validate_acyclic` counts the entries that got one, and the rest
  wait for one another. A release keeps it because the last consumer is done, recovery because a plan is resumed only
  if every entry is recoverable. `ConfigWaits` says where `config.ini` is, `Ends` that
  all outputs are in place before it shows and stay so through the next crash.

  `PeakCoversWaves` compares two accounts of the same bytes, and `IInv` knows neither what
  the space check saw nor what has been done to it since. `Seen` adds that, up to the first
  crash or failure: the tree is the checked one except for what the step names
  (`SeenFiles`: moved, not yet applied, or absent once deleted or released), and what is staged or
  in work belongs to an entry of that kind (`SeenWork`). On one side the ledger of
  `simulate_space_peaks` is a fold: its level is the sum of its changes (`LevelIs`), a peak is
  no lower than the level after any prefix (`PeakCovers`), and after the waves `E` with the
  outputs of a wave `W` reserved the level is that of the start plus `Spent` (`LevelSoFar`,
  `WaveCovered`). On the other side `EntryCovered` and `FileCovered` bound what one file
  occupies by what it was and what its entry was granted, case by case over its source and how
  far it has got; `SumCompare` adds that up over all files (`EntriesCovered`, `WorkCovered`).
  The two meet in the last wave with an entry in work (`WaveInWork`): as no entry runs ahead
  of its wave, the waves before it are applied and their bases released (`Between`).
- **ManifestUpdate.** `IInv` follows the command: what a pass still has to remove is
  unmodified and inside the install root (`Owned`, from the check of all files before the
  first removal), what it no longer lists is out of the way (`Unblocking`), in place
  (`Placed`) or gone (`Swept`). Under it lie lemmas about trees: a write or a removal where
  the code allows one keeps every file below directories.
- **ManagedResources.** A record is true between runs because of the order of the writes
  inside a run. From the first file a run writes, the pending change is its plan
  (`Intended`); `ResourcesPlaced` says what of the plan is on disk, `Attributed` that a manifest's
  content outside the pending plan is one the record names, `Pruned` what is no longer there
  of the old record.
- **Yostar.** What launch accepts is decided when the marker goes, so `IInv` says at each
  step what the rest of the command relies on: what the batch put in place (`Placed`), which
  unmodified files of the old release the passes still have to remove (`Swept`), and what
  the metadata files name (`Named`). The pass after the files undoes nothing because the
  files it removes are not in the target. An entry both manifests agree on is trusted by its
  size; that this is enough needs `Origin`, an untouched file is one of some release, and
  `SizesTell`, the only theorem here with an assumption beyond the module's: without it
  the code can accept a stale file, as section 6 notes.
- **FileTransfer.** One writer follows from a census of the live tasks: at most one task is
  on its way to write (`Alone`); a group that is still open is the newest, nobody writes
  beside it, and its counter is the number of volumes that have not reported (`Searches`);
  with no writer and no open group a task has failed or the file is accepted (`Settles`).
  Every task's payload fits the options and the disk (`Listed`). The refinement maps
  `accepts` to the contents the chosen check accepts; the five actions that replace the
  file, the report, the repetition and the changed source are steps of `EnsureFile`,
  everything else stutters.

Only model-checked: `LaunchComplete` with patches, and the liveness properties
(`BatchResolves`, `EveryTaskRuns`, `VerifyCloses`, `Recovers`, `Converges`), which are out
of the prover's reach.

## 5. Not modelled, and why

- Byte-level functions: the zip reader, decompression, hashing, HDiff.
- API clients, progress, the CLI surface, GUI, news and debug commands: no state the
  protocols depend on.
- Two griffr processes on one install: the marker is read, compared and replaced without a
  lock, and nothing in the code handles the case.
- The bounded ready frontier and the queue of runner groups between `TaskGraph` and
  `Admission`; the 100 retries of 10 ms when the shared blocking pool is full; the event
  channel two batches share after a rejected expansion.
- Staged predownloads, batches over several installs, dry runs; account switch and
  launcher, which are guarded single operations.

## 6. Where the code and its documents disagree

One is a run (`yostar_stuck`). The others were met while modelling; the models follow the
code and the runs avoid or exempt the case, as noted.

- An aged writer of an Exclusive volume with a pressure limit above one does not stop new
  readers: the reservation takes only one unit of pressure, and the writer waits for a
  moment without readers (`scheduler/queue/resources.rs:158`, `tests.rs:319`).
  `admission_liveness` uses Mixed volumes.
- A mixed install is recognised only until the next change rewrites the marker; after
  another crash unchanged manifest entries are checked by size alone
  (`cli/commands/update/run.rs:334`, `docs/DESIGN.md:65`). No file of
  `install_change` returns to an earlier content; with one that does, two crashes and two
  superseding releases lead to an install without a marker that is not whole.
- A patch interrupted during extraction counts as ready when its archives carry
  `config.ini`, because recovery does not look at direct entries
  (`patch_apply/recovery.rs:156`). The install runs use patches without it; `PatchApply` has
  both and bounds what can be refused.
- A `config.ini` inside a patch archive is committed before `game_files` and before the
  closing check, also under `--defer-verification` (`docs/DESIGN.md:43`, `post_update.rs:49`).
- A pending resource baseline of a superseded release blocks every later command
  (`files/vfs/state.rs:181`); `VerifyCloses` exempts it by name (`PendingStale`).
- `--scope core` on a superseded change drops the resource closure the marker required
  (`cli/commands/verify.rs:338`); `install_change` uses the default scope. `--scope
  resources` writes without a marker (`docs/DESIGN.md:63`). A package-only change closed by
  `verify --repair` never reads resource entries of `game_files`.
- A repair of everything that was interrupted can be closed by less: under a package-only
  change, or with `--scope core`, a later `verify --repair` checks core files only and
  removes the marker (`cli/commands/verify.rs:424-441`). `install_repair` has no scope `all`, and
  `RepairScopes` names the combination. With several releases a superseded repair becomes an
  update, which forgets what the repair was for.
- `prune_previous_files` asks the new resource index alone (`files/vfs/state.rs:85`): a path
  the old index claimed and the new one drops is removed after the closing check even if the
  new `game_files` lists it with the same content. No release of the runs does that.
- Only `update` discards a patch plan (`cli/commands/update/run.rs:83`); one that a crash
  left survives `verify --repair`, and a later update resumes it without comparing releases
  (`run.rs:67`, `predownload.rs:299`). Three releases with patches between neighbours do
  not suffice to break `LaunchComplete` this way.
- `verify --repair` of an outdated install moves its version under a Repair marker
  (`install_change/mod.rs:162`); a superseded repair becomes an update.
- A move of the asset root cut between two files is refused by the next plan
  (`build_plan.rs:325`, `docs/DESIGN_patch_steps.md:91`); `Recovers` of `PatchApply` names the
  two torn states.
- A pruned preference manifest stays on disk (`files/vfs/setup.rs:754` against `:750`).
- A manifest update that created a directory itself and was interrupted can be refused for
  that directory when repeated (`files/reuse/sources.rs:363`); on Unix a path below a file is
  an error where Windows reports it missing (`sources.rs:250`).
- YoStar has no closing pass by content, so an entry of the same size that a release
  reverts is trusted (`docs/DESIGN.md:65`); the blocking pass removes direct parents only;
  a directory left by an interrupted update stops it; an install superseded by a release
  that turns a file into a directory cannot proceed; `.griffr-uninstall.json` is written
  and never read, and an uninstall cut after the metadata is gone is refused.
- `CONTINUATION_BURST` is 4 where `docs/DESIGN_task_pool.md:129` says three, and
  `runnable_index` prefers a waiting writer to a larger backlog where lines 131-138 list the
  opposite order.

## 7. What would come next

1. `TaskGraph` and `Admission` joined by the bounded ready frontier, implementing an
   abstract dependency-ordered batch.
2. A proof of `LaunchComplete` with patches; a bound on the space of a graph whose entries run
   ahead of their wave, which the code leaves to the reservations of `Admission`.
3. `ManifestUpdate`, `ArchiveRun` and `PatchApply` as refinements of one abstract delivery
   that `InstallChange` uses as its step.
4. Batches over several installs that share volumes and a runner group.

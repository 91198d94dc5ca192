# Verification of the code memory

TLA+ models of the stateful parts of this repository, the TLC runs that check
them on small instances, and TLAPS proofs for the parts where every instance
matters. Paths below are relative to the repository root; `codecrawl`, `codeserve`
and the like live under `services/brain/internal/`.

## 1. The system and its parts

The product is a local-first memory for coding agents: it keeps an index of a
working tree fresh, answers queries from it, applies verified change sets to the
tree, logs agent sessions, and runs a local authority (a single-writer ledger, an
encrypted artifact vault, connectors, a change factory and an effect broker)
behind an owner-only gateway.

| Part | State it keeps | Operations that change it | What is hard |
|---|---|---|---|
| Code index (`codecrawl`, `codeserve`) | the gob on disk with its lock and temporary file, a per-process cache | `OpenOrRefresh`, `Save`, `Load`, `ingest_paths` | editors change the tree between stat and read; processes share the gob; crashes between temporary file and rename |
| Watcher (`codecrawl/watch*.go`) | dirty queue, debounce and retry times | kernel events, ticks, refresh | events during a refresh, failing refreshes, bounded queue |
| Change-set apply (`workflow/apply.go`) | the canonical tree, a staged copy | freeze, stage, verify, promote, roll back | concurrent editor, failure or crash in the promotion loop |
| Session log (`sessionlog`) | an append-only file folded at its bound | append, compact, reopen | crash inside a rewrite, sequence numbers after compaction |
| Durable files (`services/internal/durablefile`) | a file and its directory entry | write, sync, rename, sync directory | what a power cut may forget |
| Gardener (`gardener`) | jobs with leases and attempts | enqueue, claim, complete, fail, expire | two workers on one job, retries, budgets |
| Factory kernel (`factory`, `mailbox`, `roster`) | insert-only run, plan, lease, gate, candidate and message facts | admit, dispatch, deliver, review, cancel | stale leases, duplicate deliveries, late results |
| Effect broker (`services/broker/internal/factory`) | leases, fences, candidate repositories | authorise and execute effects | authority that changed since the request |
| Handover (`services/broker/internal/handover`) | fence and completion of one leaf | start, hand over, complete | two executors of one leaf |
| Draft pull requests (`services/broker/internal/github`) | head ref and pull request | publish, create, reconcile | a lost answer followed by a retry |
| Authority ledger (`localstate`, `localstorage`) | commands, events, outbox, watermarks | commit, replay, migrate | idempotent retries, restart |
| Artifact vault (`artifactvault`) | encrypted objects and their index | stage, publish, tombstone, purge, reconcile | crash between file system and index |
| Connectors, organisation scope, ingestion, conversations, meetings, multimodal sources, company mode, tenants, keys | see `PROJECT.json` | see `PROJECT.json` | revocation against work in flight, backup and restore of deleted data |
| Query, ranking, chunking, packing, adapters, gateway APIs, command lines | none between calls | none | pure functions or message mapping |

`PROJECT.json` lists every part with the reason it is or is not modelled, and
every hazard found so far with the line where it bites.

## 2. Modules

| Part | Modules | Proofs | Runs |
|---|---|---|---|
| Code index | `CodeIndex`, `MCCodeIndex` | `CodeIndexProofs`, `RefreshProofs` | `index_two_processes`, `index_delta`, `index_liveness` |
| Watcher | `Watch`, `MCWatch` | `BackgroundProofs` | `watch_loop` |
| Change-set apply | `ChangeSetApply`, `MCChangeSetApply` | `ChangeSetApplyProofs` | `apply_concurrent`, `apply_crash` |
| Handover | `Handover` refines `FencedTask`; `MCHandover` | `BrokerProofs` | `handover` |
| Artifact vault | `ArtifactVault`, `MCArtifactVault` | `ArtifactVaultProofs` | `vault` |
| Durable files | `DurableFile` refines `AtomicFile`; `MCDurableFile` | `DurableFileProofs` | `durable` |
| Gardener | `Gardener`, `MCGardener` | `BackgroundProofs` | `gardener` |
| Local corpus | `LocalCorpus`, `MCLocalCorpus` | `LocalCorpusProofs` | `corpus` |
| Draft pull requests | `DraftPR`, `MCDraftPR` | `BrokerProofs` | `draft_pr` |

`tlc -config X.cfg MCY` repeats a run; `tlapm YProofs.tla` repeats the proofs (the
longest takes about twenty minutes). The component modules hold the state machine, its mutants (definitions named `Mut...`,
plausible bugs that the properties must catch; no action uses them) and the
properties. `BrokerProofs` has the theorems of the two broker components, and
`BackgroundProofs` those of the two background loops: each extends both modules, which
is why the names of `DraftPR` and `Gardener` have a prefix where they would meet those of
`Handover` and `Watch` (`PRInit`, `GInit`). `RefreshProofs` extends `CodeIndexProofs`
with what holds of a refresh that nobody disturbs. `CodeIndex`, `Watch`, `ChangeSetApply` and
`DraftPR` also hold their inductive invariants, so that TLC can check one before it
is proved: name it as an `INVARIANT` in the configuration of the run.

Components depend on each other through what is proved of the lower one. The local
corpus replaces its base files in one step because `DurableFile` implements
`AtomicFile`; `Watch` refreshes file by file because `CodeIndex` shows
what a refresh returns under edits; the gardener hands its sidecars to the corpus.

## 3. The code index

### State and actions

A worker is one request goroutine, a process is one operating-system process. The
world (`tree`, `clock`, `head`) belongs to editors and git; the store is the gob,
its `.tmp` sibling, the lock file, and per process the guard mutex and the index
cache. `loc[w]` holds the locals of the request. Every system call whose answer
another actor can change is a step of its own:

| Actions | Code |
|---|---|
| `Begin` | entry of `OpenOrRefresh` (plain and forced) and of the `ingest_paths` verb |
| `IdentityStat`, `CacheServe`, `CacheMiss`, `RestatIdentity`, `CachePut` | `loadCached`, `index_cache.go` |
| `LoadGuard`, then `LoadIndex`, `LoadForIngest` or `LoadError` | `Load`, `persist.go`, and its two callers |
| `WarmVisit`, `WarmHit`, `WarmMiss` | `stAllStampsMatch` and the warm path of `OpenOrRefresh` |
| `WalkVisit`, `WalkEnd`, `StatGone`, `StatHit`, `StatMiss`, `ReadGone`, `ReadFile`, `ScanEnd` | `CrawlDir` and `CrawlDeltaFrom` |
| `IngestStat`, `IngestGone`, `IngestSkip`, `IngestRead` | `IngestPaths`, `verbs.go` |
| `IgnoresFail` | the error of `repoignore.Load` in each of the three walks |
| `LockGuard`, `LockFile`, `CreateTmp`, `EncodeTmp`, `RenameTmp`, `SaveFails`, `Unlock`, `Invalidate`, `InvalidateFailed` | `Save` with its deferred calls |
| `Edit`, `Delete`, `GitCommit`, `Crash` | editors, git, the operating system |

An index entry is the stamp and the body it was computed from: postings, symbols,
hashes and edges are functions of the body. `seen` and `quiet` are observations
that no action reads.

`Load` takes the guard of its process before it waits for the lock file, so it can
hold up the other goroutines of its process while a save of another process holds the
lock. Its shared lock is best effort: a load that fails to lock reads beside a save
that is under way, and the invariants hold of it too. `LoadForIngest` and the others
end with the guard released.

### Abstractions

- An edit gives its file a modification time no file had before, so equal stamps
  of different contents (a clock coarser than two edits) are outside the model.
- Each `Save` gives the gob a new identity (size and modification time).
- One root per gob: `ValidateRoot` and the root check of `OpenOrRefresh` pass.
- Ignore rules decide which paths are in `Files`; a content other than the empty
  one has at least one token.
- An ingest request names one path.

### Properties and runs

| Run | Instance | Checks |
|---|---|---|
| `index_two_processes` | two processes, one path, two contents and an irregular file, one edit and any deletions, two requests, any failure, any crash | `StampSound`, `CacheCoherent`, `GobComplete`, `ServedCurrent` |
| `index_delta` | one goroutine, two paths, an empty and a non-empty content | `RefreshEqualsRebuild`, `DurableCurrent` |
| `index_liveness` | three goroutines in two processes, one path, any failure, any crash, fair | `RequestsReturn` |

Bounds: `MaxOps` requests are enough for a request, and a second one that
overlaps it in any way or starts from what it left. `MaxClock` = 1 lets a file
be deleted, written anew with another content and deleted again during them;
with `MaxClock` = 2 the run `index_two_processes` passes too, on about four
times the states. Its invariants, and those of `index_delta`, are proved for any
number of edits (below). Two paths are needed only where a walk can mix
changes, an addition and a deletion. In `index_liveness` the two requests may be of one
process, which contend for its guard, or of two, where one holds its guard while it
waits for the lock file of the other; three at once are beyond a liveness check (more than ten
million states), and add only a second goroutine that waits for the guard. Runs do not check for deadlock: a system with
no request left to make stops.

Fairness: each worker's `Step` is weakly fair. The Go scheduler runs every
runnable goroutine; `flock` and the mutex wake a waiter once free. Failures and
crashes are not part of `Step`, and a load that reads without the lock while a save
holds it is a step that nothing is assumed of (`MayShareLock`).

### Proofs

`CodeIndexProofs`, and `RefreshProofs` for the last three, prove for any number of
files, workers, processes, edits and requests:

- `TypeCorrect`: `TypeOK`, with `PrevLoaded` (a request past its load holds an
  index), which the type of the cache needs.
- `StampSoundness`: `StampSound`. It is not inductive: an index in flight, in a
  request's locals or the temporary file, becomes the gob later, and a stamp not
  yet used by the file must not turn up later. `SoundInv` extends the statement
  to every index in flight and bounds every stamp by the clock. The heart is
  `ReadIsGood`: an entry whose stamp was taken before its body was read either
  has a stamp the file no longer has, or has its body.
- `CacheCoherence`: `CacheCoherent`, from `CacheInv`: identities never exceed
  `saves`, and a request between its second stat and its cache insertion holds
  the gob if the gob still has the identity it recorded.
- `GobIntegrity`: `GobComplete`, from `LockInv`: a writer past `LockFile` holds
  the lock, so the temporary file it renames is its own and complete.
- `RefreshIsCurrent`: `ServedCurrent`, what a request returns is, file by file, what
  the file was at some time since the request began. `ServedInv` follows an entry
  through the request: what the previous index says may be old, but it is only kept
  after a stat of this request found its stamp unchanged, and then `StampSoundness`
  gives its body; what the request read itself it read since it began.
- `QuietRefreshComplete`: `QuietComplete`, a refresh during which the tree did not
  change returns an entry for every file that the crawl lists and has a content,
  with its stamp. `QuietInv` says how far each walk is: the paths yet to visit, the
  entries already made, and that they are what the tree holds.
- `RefreshIsRebuild`: `RefreshEqualsRebuild`, an undisturbed refresh returns what a
  crawl from nothing would, by which of its three ways it came (cache or warm index,
  delta, full crawl). It follows from the two above. Its two hypotheses are where the code
  really differs: the delta crawl keeps a file that outgrew the size limit after
  it was listed (no irregular bodies), and ignores the limit on the number of files
  (`NumFiles <= MaxIndexableFiles`); see section 12.
- `FileIsCurrent`: `DurableCurrent`, when an undisturbed request returns, the gob holds a
  body that is current, for each file still there. `DurableInv` ties the gob to the
  request's locals at each point: it is the index the request loaded until its own
  save replaces it. Its hypothesis is one worker: with several, another's older save
  may land between this request's save and its return.

Each invariant is also checked by TLC inside the runs above through the property
it implies. `RequestsReturn` is liveness and model-checked only.

## 4. The watcher

### State and actions

`WatchFS` is one goroutine, so its handlers are atomic towards each other; what
interleaves with it is the tree, the kernel's event queue and time. A refresh is
`OpenOrRefresh` at the grain `CodeIndex` justifies: it reads the ignore rules, then
one file per step while editors go on, and at its end replaces the index or fails. The
content of a file is a number, new with every change, and 0 while there is no such
file. A refresh that has only lost files is not saved unless `HEAD` has moved
(`persist.go:375`), which `StoreIndex` leaves open. Directories appear
with their files; removing one is left out. The walk at the start watches a directory
(`AddWatch`) before it lists it (`ListDir`), and each is a step.

| Actions | Code |
|---|---|
| `Start`, `StartFails`, `ForceDone`, `FallBack`, `BeginWalk`, `AddWatch`, `ListDir`, `FirstRefresh` | `WatchFS` up to its loop, `watch_fs.go` |
| `Tick`, `ScanFile`, `RefreshDone`, `ScanFails` | the ticker case and the `refresh` closure |
| `FileEvent`, `DirEvent`, `IgnoredEvent`, `WatcherError` | the event and error cases |
| `Enqueue`, `EnqueueAll`, `Pending`, `Committed`, `Clear` | `refreshQueue`, `watch_queue.go` |
| `PollFresh`, `PollDirty`, `PollRefresh`, `PollLoadFails`, `PollFails`, `PollDone` | `WatchPoll`, `watch.go` |
| `Edit`, `Remove`, `Mkdir`, `EditIgnore`, `Notify` | editors and fsnotify (external) |
| `DebounceElapses`, `RetryElapses`, `Cancel` | time and the context |

`dirtyAt` and `retryAt` are unset, too recent or due: the loop only compares them
with the present. Ignore rules change for directories without subdirectories.
`Freshness` is taken in one step.

### Properties and runs

| Run | Instance | Checks |
|---|---|---|
| `watch_loop` | three nested directories, a file in the first and one in the last, both queues of size 1, two edits, an ignore edit, two failures, fair | `ChangeTracked`, `CatchesUp` |

Queues of size 1 make both overflows happen with two events; two edits and an ignore edit
allow a change before, during and after the same refresh. `ChangeTracked` and `CatchesUp`
speak of the files that are there, in directories that have a watch and that the rules
of the start do not exclude; a directory too deep for a watch is not followed. A file
that is gone may stay in the durable index, as a refresh that finds nothing else is not
saved. `CatchesUp` also counts on a first success: a first refresh that fails is not
retried.

Fairness: the loop's own steps and the passing of time are weakly fair; edits,
failures and cancellation are not. Which ready case of the `select` is taken does
not matter to the properties because the edits are finite in number.

### Proofs

`BackgroundProofs` proves for any tree, queue sizes, edits and failures:

- `TypeCorrect`: `TypeOK`, which contains the bound of the refresh queue.
- `NoLostChange`: `ChangeTracked`. The inductive invariant adds that only existing
  directories are watched (`ExistsInv`: else a new directory could be expected to
  have been reported), that an overfull kernel queue holds its marker
  (`OverflowInv`), and that during a refresh every file already read and
  changed since is reported, while a later refresh starts with work queued
  (`TrackInv`). The refresh's end then needs only that an unsaved result agrees
  with the index wherever it read something.

`CatchesUp` is a liveness property and model-checked only.

## 5. Change-set apply

### State and actions

`ApplyChangeSet` takes no lock. Calls run against each other, editors and git, so
every read of the tree and every rename is a step. A body stands for its digest,
all change sets are made against `Base`, and `After(a)` is what the edits of call
`a` make of it. The stage is private to its call.

| Actions | Code (`workflow/apply.go`) |
|---|---|
| `Begin`, `Refuse`, `Freeze`, `FreezeStale` | entry, the error returns before the promotion, the freeze loop |
| `VerifyHead`, `ProbeFails`, `VerifyStatus` | `verifyGitBase` |
| `StageGit`, `StageCopy`, `Cleanup` | `stageTree`, `copyTree` and the deferred cleanup |
| `StageEdits`, `Verified` | the edits in the stage, the verification commands |
| `Check`, `CheckStale`, `Promote`, `PromoteFails`, `PromoteInjected` | the promotion loop, its two aborts and the failure injected after the first rename |
| `Restore`, `RestoreFails`, `Aborted` | `rollback` and `abortPromotion` |
| `Edit`, `GitCommit`, `Crash` | editors, git, the operating system (external) |

`atomicWrite` is one step, its rename, since nothing else of it is visible at the
target. `before`, `touched` and `unseen` are observations that no action reads.
File modes, symbolic links, size limits and what a crash leaves beside the tree
are left out. The targets are the first files in path order.

### Properties and runs

| Run | Instance | Checks |
|---|---|---|
| `apply_concurrent` | two calls on the same two files, in git or not, two edits, fair | `Transactional`, `NoResidue`, `CrashLeavesPrefix`, `ReplacesBase`, `Returns` |
| `apply_crash` | violated: a crash between two renames leaves a mixture | `NeverMixture` |

Two paths are the least with something to roll back while something is left to
promote; two edits let an editor change a file and change it back. Both calls and
the editor may write the same file. `Transactional` excepts the files others wrote
since the call began, and the calls whose restore failed, which the receipt
reports; `NoResidue` has only the second exception. `apply_crash` shows that a crash
may leave a mixture; `CrashLeavesPrefix` says which mixtures there are: the paths
that are new are the first ones in path order, because the promotion goes forward
and the rollback backward.

Fairness: a running call goes on. Failures, crashes, edits and commits are not
fair. The run does not check for deadlock: when every call has returned and no edit
is left the system stops.

### Proofs

`ChangeSetApplyProofs` proves for any number of calls, files, targets and edits:

- `TypeCorrect`: `TypeOK`, together with `NextInv`, the range of each walk.
- `AllOrNothing`: `Transactional`, and `NothingLeft`: `NoResidue`. Both speak of
  calls that returned; `ApplyInv` says for a call under way which files are new.
  `TransAt`: where nobody else wrote, the targets were found at `Base`, and the
  tree is as found but for the paths before `next`. `ResidueAt`: a body of the
  call is only at a path before `next`. Each is kept by the call's own steps
  (`OwnStep`) and by those of everyone else (`OtherStep`, `ByOther`), because no one
  else writes the call's body.
- `CrashIsPrefix`: `CrashLeavesPrefix`. `TransAt` says how many paths are new where
  the call dies (`PrefixAtCrash`); afterwards only others write (`PrefixKept`).
- `ReplacesItsBase`: the action property `ReplacesBase`, a promotion overwrites only what
  the change set was made against, or what came after the call's last look at the file.
  `ComparedInv` says that a path the call has compared and nobody wrote since is at
  `Base`.

The assumptions are those of `ConstantsAssumption`: at least one target, and
bodies of different calls differ from each other and from what editors write.
`Returns` is liveness and model-checked only.

## 6. Handover

`Coordinator` keeps one mutex, but `ResumeTarget` releases it while the leaf runs, so
each of its critical sections is a step and several callers may be between them.
`CommitSource` is the worker that was started locally and does not know that the
task has moved.

| Actions | Code (`services/broker/internal/handover`) |
|---|---|
| `Checkpoint`, `Transfer`, `Revoke` | the methods of these names |
| `Resume`, `ResumeDuplicate`, `Run`, `RunFailed`, `RunReturned`, `CommitTarget` | the critical sections of `ResumeTarget`, and `ModalExecutor` in between |
| `Commit`, `CommitSource` | `CommitUnderFence` and its two kinds of caller |
| `CleanupBegin`, `CleanupCheck`, `CleanupWakes`, `CleanupGivesUp`, `CleanupTeardown` | `Cleanup` and its polling loop |

`handover` runs two callers, two bundles and three attempts: two callers are the
least that overlap, and the third attempt resumes after one failed and one succeeded.
It checks `OneCompletion` (all callers get one receipt, of the realm that holds the
fence), `TerminalStays` (a late failure does not take a finished task back),
`CleanupComplete` (no app is left), `CleanupReturns`, and `ImplementsTask`: the
coordinator refines `FencedTask`, a task with one holder and one outcome. Fairness:
a goroutine that runs goes on, and the leaf ends because the executor's work is
bounded; nobody is obliged to call.

`BrokerProofs` proves `TypeCorrect`, `ExactlyOnce` (`OneCompletion`), `NoAppLeft`
(`CleanupComplete`), `NoRegression` (`TerminalStays`) and `Refinement`
(`ImplementsTask`) for any callers, bundles and attempts. The inductive invariant
`IInv` adds `CoordInv`, which ties the fence to the state (resumable states have
fence 2, whoever is inside `ResumeTarget` holds it), and `CleanInv`: without
overlapping runs `targetActive` is exact, so nothing runs once `Cleanup` saw it
false. `overlap` is needed because one flag cannot count two runs. `CleanupReturns`
is liveness and model-checked only.

## 7. Artifact vault

One artifact of one tenant. A metadata operation of `localstorage/artifact.go` is one
transaction and one step; so is each object written, read or deleted. `promised` and
`leaked` are observations.

| Actions | Code (`artifactvault`, `localstorage/artifact.go`) |
|---|---|
| `StageBegin`, `StageDuplicate`, `StagePut`, `StageFails`, `StageComplete` | `StageContent`, `Stage` with the reservation and `CompleteStage` |
| `AbortDelete`, `AbortReservation` | the cleanup of a stage that failed |
| `VerifyBegin`, `ReadBegin`, `VerifyFrame`, `VerifyInterrupted`, `Quarantine`, `VerifyEnd` | `Publish`, `Reconcile`, `HydrateRange`, `ReadRange` |
| `Tombstone`, `PreparePurge`, `PurgeDelete`, `CompletePurge` | `Tombstone`, `Purge` |
| `Crash`, `Damage` | the operating system and the disk (external) |

`vault` runs three calls on two generations of two contents and two frames, with two
reservations and one fault. Two frames are the least that can be half written; the
second generation needs the first to be published; three calls let a purge and a
read meet a stage. `StagedKept`: a receipt given out names a generation that stays
complete, and no object of a live generation goes missing. `PurgedGone`: a purged
generation has no object, whatever failed before. `NoOrphan`: an object without a
record is one whose deletion failed. `CurrentComplete`: what the current pointer
covers was published completely. `ForwardOnly`: a status only moves forward.

`ArtifactVaultProofs` proves all of them (`TypeCorrect`, `ReceiptsKept`,
`PurgeDeletes`, `NothingForgotten`, `CurrentIsComplete`, `StatusForward`) for any
calls, generations, contents and frames. `IInv` says per call which objects exist:
`StageInv` (what it wrote lies before its frame), `VerifyInv`, and `PurgeInv` (what
it deleted lies before its frame); `FenceInv` says that a fence is one
reservation's, which is why the steps of one call cannot touch the objects of
another (`OtherCall`). `RecordInv` is the part of the properties that is about one
record. Encryption, the in-memory repository and the Postgres one are left out.

## 8. Durable files

`WriteFunc` step by step over a filesystem that has two views of everything: what a
reader sees (`cache`, `live`) and what is on disk (`disk`, `stable`, `dir`). A power
cut replaces the first by the second. The system may write back anything at any time
(`FlushFile`, `FlushNames`, `FlushDir`, external).

| Actions | Code (`services/internal/durablefile`) |
|---|---|
| `Begin`, `Emit`, `Sync`, `Close`, `Rename`, `SyncDir` | `WriteFunc` in its order |
| `Fails`, `SyncDirFails`, `Cleanup` | its error returns with the deferred removal |
| `Kill`, `Crash` | one process dies, or the power fails (external) |

`durable` runs two writers of two contents, three calls and two faults: enough for
two renames to be pending when the power fails, and for a call after the restart. It
checks `AckedStable` (a call that returned nil is not undone), `TempsOwned` (no
temporary file is left by a call that returned cleanly) and `ImplementsAtomicFile`:
`WriteFunc` refines `AtomicFile`, a file that is replaced as a whole. The other
components that write through this package use the abstract file.

`DurableFileProofs` proves all four (`TypeCorrect`, `AckedIsStable`,
`TempsAreOwned`, `Refinement`) for any writers and contents, and for file systems
that sync directories and those that do not. `IInv` adds `CallInv` (a file is on disk
before its rename, and no name refers to it until then), `OwnFiles` (no two calls
write one file, which is what the random suffix of the temporary name is for) and
`NameInv` (what a name refers to is whole in both views). `AckedStable` needs the
directory itself to be on disk: nobody syncs the parent of a directory that
`MkdirAll` has just made.

## 9. Gardener

The queue of enrichment jobs and the processes that work on it. The queue's methods
are SQL transactions, one step each. A claim starts one goroutine per job
(`tasks`); the collected receipts (`gathered`) become sidecars at the end of a call. Each
process keeps its sidecars in memory with marks for the next flush (`sidecars`,
`dirty`); the files (`files`) are shared, and appended to or rewritten from the memory
of one process without a lock between processes. Time is the set `expired` of leases
that have passed. `lost` is an observation: the outputs that were dropped and are not
back in the files.

| Actions | Code (`gardener`, `hosted/enrich.go`) |
|---|---|
| `EnqueueJob`, `Claim`, `ClaimNothing`, `ClaimFails`, `Complete`, `CompleteFails` | `SQLiteQueue` and what its callers do with an error |
| `Begin`, `Stop`, `RunJob` | the waves of `RunGardenerWave` and `RunWave`, their budgets, the workers |
| `WarmSidecars`, `WarmFails`, `WriteSidecars` | the end of `RunGardenerWave` and `flushSidecarsLocked` |
| `FlushSidecars` | a flush by another call of the store, an ingest or `DeleteDocuments` |
| `Expire`, `Crash` | time and the operating system (external) |

`gardener` runs two jobs, two processes, claims of two and two faults: two faults let
a lease expire under a running worker and its completion fail. `LeaseExclusive`: two
workers run one job only if a lease ran out. `ReceiptAgrees`: row and receipt agree
in whatever order late completions arrive. `EndedStays`: an ended job is not run
again. `OutputKept`: the output of a completed job is in the files, marked to be
appended, collected by a call under way, or lost to one of three things that are in the
code: a claim that fails in a later wave, a death, and another process's rewrite of the
files. A failing completion, a failing flush and a budget that ends a wave lose nothing.
`JobsEnd`: every job ends, through crashes and lost completions, because a lease runs
out (section 12 has what the comments say of it). Fairness:
the processes go on, as the command and the background goroutine loop; workers end,
as they run under `MaxJobDuration`; a lease nobody holds expires, as time passes.
Deadlock is checked.

`BackgroundProofs` proves all but `JobsEnd` for any jobs, processes and claims
(`QueueTypeCorrect`, `LeasesAreExclusive`, `ReceiptsAgree`, `EndedJobsStay`,
`OutputsKept`). `GTypeOK`, `LeaseExclusive` and `ReceiptAgrees` are inductive
together: a completion is only from a claim, so the row it updates is leased or has
ended. `OutputKept` is inductive on top of them and of `MarksInv`, a process only marks
what it has in memory: that is why its own rewrite loses nothing of its own.

## 10. Local corpus

`durableStore` holds the corpus in memory and writes two files, each with a delta that
is appended to and laid over it on load. Calls change memory under one lock, mark
what they changed under another, and flush under that one, so memory may change
while a flush runs. A flush works on the copy `snap` it took and each write of it is
a step. A crash here ends the process. The deltas are synced before the marks are
cleared (`local.go:403`, `local.go:500`), so a power cut loses no line that a flush has
reported; an append that fails may leave lines, part of a line, or all of them.

| Actions | Code (`hosted/local.go`, `ingest.go`, `memory.go`) |
|---|---|
| `Upsert`, `Warm`, `Delete`, `Mark`, `Check` | `UpsertChunks`, `WarmSidecars`, `DeleteDocuments` |
| `Burst`, `Work`, `MarkWork`, `EndBatch` | `BurstIngestLocal` and its workers |
| `BeginFlush`, `Rewrite`, `Drop`, `Skip`, `Append`, `AppendFails`, `FlushFails`, `EndFlush` | `flush` with its deltas and their compaction |
| `Crash` | a restart with `load` |

`corpus` runs two documents, two texts, two goroutines, three calls, one failing write
and a compaction limit of two lines, so that compactions, torn lines and flushes
that overlap calls all happen. `Owed`: between flushes, memory is what a restart
would load or is still marked. `Kept`: a restart between any two writes loads what
a call that flushed has reported, a text or a deletion; all it can miss is a record
that was appended to a torn line (`lost`). Deadlock is checked. Documents and texts
are symmetric; the goroutines make different kinds of call, so they are not.

`LocalCorpusProofs` proves `TypeCorrect`, `NothingForgotten` (`Owed`) and
`ReportsSurvive` (`Kept`) for any documents, texts, goroutines, calls and limit. The
hard part is the flush: `Copy` says that its copy is memory but for what changed since
and is about to be marked (`InWin`); `Written` says for every file how far it is
(before the rewrite, between rewriting the base and dropping the delta, after);
`Promised` says that what was reported is what memory still holds. Together with
`OwedInv` and `Kept` they are inductive.

## 11. Draft pull requests

A publication is a tuple and has two phases, a head ref and a draft pull request.
The broker documents concurrent and duplicate workers, so calls of `Publish` overlap,
in one process (one outbox) or in several; the only caller today holds a lock. Each
critical section and each call of the provider is a step. The provider is modelled
from the transport: it refuses a second open pull request of one head and base,
answers may get lost after it acted, and others may push, close, edit or delete once.

| Actions | Code (`services/broker/internal/github`) |
|---|---|
| `Begin`, `Replay`, `CallFails` | entry of `Publish`, `reauthorize`, error returns |
| `EnterBranch`, `CheckBase`, `ReconcileHead`, `CreateRef`, `LookAgain`, `BranchPublished` | `ensureBranch` |
| `EnterPR`, `Lookup`, `Create`, `CreateFails`, `LookupAgain` | `ensureDraftPR` |
| `CommitPRSuccess`, `MarkEnd` | `commitPRSuccess`, `markConflict` and the closed state |
| `Crash`, `Outside` | a process dies; other users of the repository (external) |

`draft_pr` runs two workers, two processes, two requests of different content, two
faults and one change by others: enough for a lost answer to be retried by the other
worker in the other process, and for that to fail too. `NoDuplicate`: a call that begins when there is a pull
request never opens another. `OneReceipt`: all receipts name one pull request.
`ReceiptRepeats`: while nobody else interferes, a publication that has a receipt is
in conflict nowhere. `HeadExact`: no pull request comes from another commit than the
approved one, unless others pushed. `CallSettles`: whatever faults and overlapping calls
have left behind, one more call settles the row if nothing disturbs it while it runs (no
other call, no fault, no change by others; `undisturbed` observes that), except where
others deleted the head ref. It is a property of steps and needs no fairness: the
code has no loop that retries a publication, and nothing is claimed of calls that
overlap without end. The run does not check for deadlock: nobody is obliged to call.

`BrokerProofs` proves for any workers, processes, requests, faults and changes by
others:

- `PRTypeCorrect`: `PRTypeOK`, which includes that a stored receipt names a pull request that
  exists, that a row in state `pr_created` has one, and that a call works on the row it
  entered with.
- `PRHeadExact`: `HeadExact`, from `HeadInv`: past the first phase, in a call or in a
  row, the head ref is at the approved commit or others have pushed.
- `PRNoDuplicate`: `NoDuplicate`, from `DupInv`: a call that is about to create began when
  there was no pull request, because its lookup saw none and none is ever removed.
- `PROneReceipt`: `OneReceipt`, and `PRReceiptRepeats`: `ReceiptRepeats`. `ReceiptInv` says
  that a receipt, returned, stored or about to be, is of a draft opened with its
  content. `AloneInv` says what holds while others have changed nothing: at most one
  pull request, open and as it was made, and every conflict, in a call or in a row,
  has a reason that stays (`Taken`): the head ref is somebody else's, or the one pull
  request has another content. A receipt of the content excludes both.
- `PRCallSettles`: `CallSettles`. `UndisturbedInv` says that an undisturbed call runs alone,
  that a ref it cannot make is there, and that a pull request it cannot open has no
  head ref. The only ways out of the call are then the settled ones.

The step from the code to these invariants is a table of what each call may do
(`CallTable` for its position, `RowTable` for its row, `Opens` for the provider);
every invariant is checked against the table, not against fifteen actions.
`PRConstants` only says that the model values are different from each other.

## 12. Disagreements with the documents

`apply_crash` is the run for the most serious one. The others were met while
modelling and are stated here; the models follow the code.

| Code | What a document, comment or test says | What the code does |
|---|---|---|
| `codecrawl/delta.go:93` | `docs/specs/code-intelligence/README.md:210`: incremental index equals clean rebuild | a file listed and then grown above the size limit is kept by the delta crawl, and by warm refreshes after it; a clean crawl leaves it out |
| `codecrawl/crawl.go:37` | the same line | the delta crawl does not apply `MaxIndexableFiles` |
| `codecrawl/persist.go:375` | the same line | a refresh that only loses files is not saved; the next one has to find it again, and the polling watcher, for which the durable index is then never fresh, refreshes on every debounce |
| `codecrawl/persist.go:395` | its comment | the warm check counts files that the crawl leaves out |
| `codecrawl/watch_fs.go:48` | its comment | directories too deep get no watch |
| `codecrawl/watch_fs.go:15` | its comment | a first refresh that fails is not tried again |
| `workflow/apply.go` | `docs/specs/code-intelligence/README.md:205` | a save between the last comparison and the rename is overwritten |
| `handover/coordinator.go:216` | its comment | of two overlapping target runs the first to end lets `Cleanup` go on |
| `artifactvault` | `artifactvault/README.md:25` | a context that ends during verification quarantines an intact generation |
| `hosted/enrich.go:170` | `gardener/types.go:42` | the text of a panic becomes a sidecar; outputs of a call are lost when a later fault ends it |
| `hosted/local.go:363` | `hosted/enrich.go:155`: run `product-brain gardener` in the background | each process rewrites `sidecars.jsonl` from its own memory, without a lock between processes: a server that compacts or deletes drops what the command wrote |
| `gardener/sqlite_queue.go:185` | `gardener/scheduler.go:70`, `gardener/complete_error_test.go:11`: a lost completion "strands the job as permanently claimed" | the queue hands the job out again when its lease has run out, and the work is done twice |
| `hosted/ingest.go:206` | `hosted/local.go:106` | an upsert during somebody else's burst returns before it is flushed |
| `github/broker.go:203` | `Publish`: converge to one receipt | overlapping calls overwrite each other's terminal state, without end if they go on; a head ref deleted after the first phase is not made again by that process |

## 13. What is not shown

- Liveness (`RequestsReturn`, `CatchesUp`, `Returns`, `CleanupReturns`, `JobsEnd`) is
  model-checked only: the prover has no rule for fairness, nor for `ENABLED`. All other
  properties of the passing runs have a theorem.
- The prover does no induction over data. What walks and folds compute is
  therefore stated by invariants over the steps of a walk (`QuietInv`), and no module
  defines an operator recursively.
- The proofs speak of the models. That a model follows the code is shown by the map in
  `PROJECT.json`, definition by definition, for a reader to compare.
- The instances are small and the proofs are not: where a theorem has a hypothesis the run
  does not (`RefreshIsRebuild`, `FileIsCurrent`) the section of the component says why.
- Parts that are not modelled are listed in `PROJECT.json` with the reason. Most hold
  state under one lock or in one transaction per operation, or none at all.

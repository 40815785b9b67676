# Publish Carousel: models, checks and proofs

The Publish Carousel republishes the content of a Mongo "native store" to the
`cms-notifier`, for ever: *cycles* walk a collection, or a sliding time window of it,
at a throttled pace; a *scheduler* starts and stops them; S3 keeps what they must not
forget; toggles and the health of the clusters around decide whether they run.

This directory holds TLA+ models of that program, the TLC configurations that check
them on small instances, and proofs for every instance that TLAPS checks. Paths such
as `scheduler/cycle.go` are relative to the repository (`src/` here); `PROJECT.json` maps every
definition to the lines it stands for, and lists the runs, the mutants, the
hazards and the theorems.

    tlc -workers 2 -config ThrottledCycleRestart.cfg MCThrottledCycle.tla
    tlapm ThrottledCycle_proofs.tla

## 1. Inventory

| Component | State | Operations | What is hard about it |
|---|---|---|---|
| Throttled whole-collection cycle (`scheduler/throttled_whole_collection_cycle.go`, `scheduler/cycle.go`) | `CycleMetadata` under a lock, the `cancel` of the last `Start` | `Start`, `Stop`, `Reset`, `SetMetadata`, the goroutine `start` | a goroutine outlives its `Stop`; a second `Start` overwrites `cancel`; the resume point counts on a list made by somebody else |
| In-memory UUID collection (`native/in_memory_collection.go`, `native/s3.go`) | the list, and its copy in S3 | `LoadIntoMemory`, `Next` | skip inside, at and past the end of the list; interrupted loads; failed reads and writes |
| Time-windowed cycle (`scheduler/time_windowed_cycle.go`, `scheduler/scaling_window_cycle.go`) | the window, the throttle | as above | documents leave the window while it is read; a window with nothing in it |
| Native UUID collection (`native/native_uuid_collection.go`, `native/query.go`, `native/mongo.go`) | a Mongo cursor | two queries, `Next`, the batch size | Mongo gives up an idle cursor |
| Throttles (`scheduler/throttle.go`) | a token bucket, its context | `Queue`, `Stop`, the rate of a window | division by the number of publishes, the two bounds |
| Scheduler (`scheduler/scheduler.go`) | `schedulerState` (current and previous), the map of cycles, `cycleLock`, `toggleHandlerLock` | `Start`, `Shutdown`, `AddCycle`, `DeleteCycle`, the toggle handlers, `RestorePreviousState`, `saveCycleMetadata` | `Start` and `Shutdown` hold the lock for *reading*; the state is read and written between them |
| Checkpoint handler (`scheduler/checkpoint_handler.go`) | one goroutine, a lock, an unbuffered channel | `start`, `stop` | the send waits for a receiver that may wait for a lock |
| Metadata store, S3 (`scheduler/metadata_rw.go`, `s3/service.go`) | one object per write and folder | `WriteMetadata`, `LoadMetadata`, `GetLatestKeyForID` | which object is the latest; listings of a thousand |
| File and etcd watchers (`file/watcher.go`, `etcd/watcher.go`) | what was seen last | `Read`, `Watch` | a change between the read and the watch; failed reads; the list of files is made once |
| Boot and signals (`main.go`) | none | reads and applies the toggles, restores, starts | the order in which it does |
| Delivery environments (`cluster/file/read_environments.go`, `cluster/etcd/`) | the parsed environments, a lock | the watches and their callbacks | each callback reads the other's file |
| Cluster services and health (`cluster/`, `resources/healthchecks.go`) | a result per service | `Check`, `unhealthyClusters`, the failover check | a channel closed by its receiver; three flags read one after the other |
| Cycle configuration (`scheduler/config.go`) | none | `Validate`, `NewCycle`, `TransformToConfig` | what is made of a cycle must be valid again |
| API (`resources/scheduler.go`, `resources/cycles.go`) | none | create, delete, resume, stop, reset, throttle | cycles are used after the lock was released; a throttle change is a delete and a create |
| Publish task, native reader, notifier (`tasks/`, `native/native_reader.go`, `native/mongo.go`, `image/`, `cms/`) | the Mongo session | `Open`, `Prepare`, `Execute`, `Notify` | a document may change, or die, between being read and sent; every way to fail must be counted |
| Blacklist (`blacklist/blacklist.go`) | none: the file is scanned for every UUID | `IsBlacklisted` | not modelled, see section 8 |

They interact so. `main` reads the toggles, gives them to the scheduler, restores each
cycle's metadata from S3 and calls `Start`. `Start` makes every cycle spawn a goroutine
and a checkpoint goroutine that saves all metadata now and then. The API, the two
toggle watchers, the signal handler and the cluster health check call the scheduler
from goroutines of their own, and the API calls `Start`, `Stop` and `Reset` of single
cycles without any lock of the scheduler. A cycle's goroutine owns nothing: metadata
is shared with `Stop`, `Reset`, `Start` and the checkpoint, the list in S3 with whatever
other cycle reads the same collection, the Mongo session with all of them. A cycle's ID is
the hash of its name and collection: the cycle that replaces another has the same ID, and
finds the other's metadata in S3.

What makes the parts correct:

* a **cycle** skips no item, whatever restarts it is made of; it goes on for ever; it
  stops when it is told to, and soon;
* a **windowed cycle** attempts everything modified in its window, loses no
  modification, and loses a cursor only to publishes, or a pace, slower than its batch allows;
* the **scheduler** runs every cycle or none, but for those the API resumed or stopped one by one, never
  changes the map somebody walks, obeys whoever switched it off, and answers every call;
* the **store** gives back the newest state;
* the **watchers** miss no change; the **health check** counts every service once, and answers;
* a **call of the API** that changes a cycle loses neither it nor the pass it was in;
* the **publish task** sends what is stored, under the hash of what is stored, and whatever
  it does not send is counted.

## 2. Modules

| Module | What it models | Composed with |
|---|---|---|
| `ThrottledCycle` | one throttled cycle: the worker goroutines, `LoadIntoMemory`, the list in S3, metadata in memory and in S3, the API's start, stop and reset, boot, checkpoint and crash | |
| `MCThrottledCycle` | instance: symmetry of the worker slots | extends `ThrottledCycle` |
| `ThrottledCycle_proofs` | theorems | extends `ThrottledCycle`, `TLAPS` |
| `WindowedCycle` | one scaling-window cycle, its throttle and cursor, the documents and the clock | |
| `WindowedCycle_proofs` | theorems | extends `WindowedCycle` |
| `Lifecycle` | abstract: how the mode of the scheduler may move | |
| `Scheduler` | the scheduler, its locks, the checkpoint goroutine and its callers, lock by lock | `INSTANCE Lifecycle WITH mode <- cur, last <- prev, toggle <- ToggleOwner` |
| `MCScheduler` | instances: who the callers are | extends `Scheduler` |
| `Scheduler_proofs` | theorems | extends `Scheduler` |
| `StateStore`, `StateStore_proofs` | S3 folders, their writers and readers; theorems | |
| `ToggleWatch`, `ToggleWatch_proofs` | the two toggles, from file or etcd to the mode of the scheduler, beside starts, shutdowns and health checks; theorems | |
| `ReadEnvironments` | two watched files that are parsed together, or one key of etcd | |
| `ClusterHealth`, `MCClusterHealth` | one call of `unhealthyClusters`; instance | |
| `Clusters_proofs` | theorems about both | extends `ClusterHealth` and `ReadEnvironments`, whose names are disjoint |
| `CycleConfig` | which configurations are valid, the cycle made of one, the configuration made of a cycle, as functions | |
| `CycleAdmin`, `MCCycleAdmin`, `CycleAdmin_proofs` | the API for one cycle ID: the cycles made for it, their goroutines, the map's entry, S3, boot and crash; instance; theorems | extends `CycleConfig` |
| `PublishTask`, `PublishTask_proofs` | what several cycles do with each document, and what is counted of it; theorems | |

A definition whose comment begins with "Variant" is the faulty form of the definition
that follows it. No specification uses it; replacing the real one by it must make the
property named in `PROJECT.json` fail, which shows that the property depends on that code.

### ThrottledCycle

| Model | Code |
|---|---|
| `meta` | `abstractCycle.CycleMetadata`: Completed, Total, whether there is a current UUID, State |
| `saved` | what the checkpoint wrote and `RestorePreviousState` reads |
| `listFrom` | the list in S3: items `listFrom+1 .. Items` |
| `work[w]` | a goroutine in `start(ctx)`: `pc` is where it is, `skip` and `next..last` its local variables |
| `cancelled`, `handle` | the contexts, and which of them `abstractCycle.cancel` cancels |
| `client[k]` | an API call between the two steps of `Stop`, the three of `Reset` |
| `stage` | down, restored, started |

Each action is a stretch of the goroutine between two points at which another may be
seen: `ReadSkip` (line 34 of the cycle), `LoadFromS3`, `UseCursor`, `LoadComplete`,
`LoadInterrupted`, `LoadFailed`, `Persist` (`LoadIntoMemory`), `Setup` and `NothingToPublish`
(lines 56-62), `Proceed`, `Stopped`, `Publish`, `Record`, `Finish` (`publishCollection`).
Documents are numbered; `Kept` are the ones that are neither blank nor
blacklisted, and every list the code builds is a run of consecutive kept items, represented
by its two ends. The collection does not change during a behaviour. `done` is a
history variable: the items attempted in the pass that Completed counts. Error and attempt
counters, the iteration number and the publish reference are left out; Completed is
capped one above the number of documents, where the code's comparisons stop telling
values apart.

### Scheduler

A call is a sequence of steps, one for each acquisition of a lock, each access to
`schedulerState`, each cycle started or stopped. `readers` and `writer` are the
`sync.RWMutex` with its preference for a writer that waits, `toggler` and `stopper` the
two other locks. A cycle is a goroutine that can be cancelled (`active`) or, when it was started
again before it was stopped, no more (`orphans`). `HealthCheck` is what `unhealthyClusters` does with its
answer. `Fetch` is the API's `Cycles()` and look-up of one cycle; `ResumeCycle` starts, and `HaltCycle` stops (for a
stop or a reset), what it found, without a lock and whatever the scheduler's mode is. `resumed` and `halted`
are history variables: which cycles the API resumed that no `Stop` reached since, and which it stopped
since the scheduler runs. `StoppedMeansQuiet` and `RunningCoversMap` except exactly these: an operator who
resumes a cycle of a stopped scheduler gets a cycle that runs, and one who resumes a running cycle a goroutine that
no shutdown stops. `CallsOf` says which calls a thread makes. `Lifecycle` is the abstract
specification: who may change the mode, and how, when calls do not overlap; the call whose thread
holds `toggler` is the toggle being handled. `SchedulerEditor` checks that `Scheduler` implements it.

### WindowedCycle

The clock orders modifications and windows. The pace is counted apart, in units of its own: `idle` is
the time since Mongo was last asked. It grows by what the throttle makes a read wait (`Wait`: one token
per interval, the first at once) and by what a `Prepare` and `Execute` take, any of `PublishTimes`; so the gap
between two reads is the longer of the two, as in `publishCollection`. Beyond `CursorTimeout` Mongo has closed
the cursor (`Lost`), and the next batch is an error (`CursorFailed`). `lag` is a history variable, how much later the
reads came than `MaxThrottle` apart, from which the batch was computed. `MinThrottle` and `MaxThrottle` are
any numbers, in any order, since nothing checks them: a maximum of zero panics (`Panicked`), one
above the cursor's timeout is an error of the query. Durations are taken as whole and not negative. mgo's
prefetch, which asks for the next batch when a quarter of the last is left, is not modelled: without
it the cursor is idle longer. `FetchMore` and `CursorSkips` are the cursor: more is fetched when a batch is
consumed, and a document modified since the query may not be returned (external: Mongo). Times have the
resolution of the clock, as the query's RFC 3339 times have that of seconds.

### StateStore

`Write` takes the key from the clock, `PutObject` stores; between the two other clients write.
The contents of a folder are numbered in the order they were stored. `GetLatestKeyForID`
chooses among what one listing returns, `Read` gets what is there by then. Two assumptions
are constants: `PageLimit`, which runs set above what a folder can hold, and `Spaced`, that
no two objects are stored in the same second. That objects expire (`Purge`), and that the newest of a folder never
does, is an assumption about the bucket's configuration, which is outside the repository: `MissingIsSuperseded` and
`LoadIsFresh` rest on it. A bucket that expires the last object of a cycle that was off for long
makes it start from zero.

### ToggleWatch, ReadEnvironments, ClusterHealth

`ToggleWatch` composes the boot (`BootRead`, `BootWatch`, `BootApply`, `BootStart`), the two
watchers and the scheduler, whose calls are single steps here: `Handle` is `toggleHandler`, with
`Enable` and `Off`, and `HealthCheck`, `StartCall` and `ShutdownCall` are what else changes the
mode. `listed` are the toggle files that `NewFileWatcher` found: it makes its list once, and every read of a file
that is not in it fails, at boot and at every tick, though the file may have been created since (`Unlisted`, `Ticking`). A
listed file stays readable, or becomes so again. The file watcher compares contents at every tick, its first after
thirty seconds, when the boot has handed over what it read but may still be restoring or starting
cycles; the etcd client (external, modelled from how it is used) reports what follows the last event once
it had one, and only what follows the request before that. `clash` remembers that both toggles were off
at once, which the scheduler's one state cannot. `ReadEnvironments` has the same two sources:
with files, two watchers whose callbacks exclude one another (both files are listed: a boot that cannot
read them panics); with etcd, one. Its `lost` marks a
change that a callback gave up, or that etcd's client cannot hear of. `ClusterHealth` is one
call: a goroutine per service, a channel of capacity one, and the collector that closes it.
Its specification is `CheckSpec`, and its names differ from those of `ReadEnvironments`, so that one module can extend both.

### CycleConfig and CycleAdmin

| Model | Code |
|---|---|
| `cycle[o]` | a cycle object: what it was configured with, and its metadata |
| `current` | the entry of the scheduler's map for the ID |
| `work[w]`, `cancelled` | a goroutine of a cycle, and whether its context is cancelled |
| `cancel[o]` | the goroutine that `abstractCycle.cancel` cancels: the one started last |
| `thread[t]` | a call between the look-up and its effect; for a throttle change also the copied metadata, before and after the delete |
| `saved` | the `CycleMetadata` of the ID in S3 |

`Validate`, `NewCycle` and `TransformToConfig` are those of the code: the cool down is never
checked, since it is passed where the cycle's name belongs (`scheduler/config.go:47`, though
`README.md:186` says it is required); a scaling window's
configuration leaves its origin out; a duration that does not parse counts as zero. `AddCycle`,
`RemoveCycle`, `Boot`, `Save` and `Shutdown` are the scheduler's, each under its lock and so in one
step. A start takes two, `SchedulerStart` (the mode) and `StartCycles` (this ID's cycle); calls that need the lock for
writing wait in between (`Unlocked`), resumes, stops and resets do not; a shutdown that overlaps a start is
`Scheduler`'s. A resume starts the cycle it found whatever the mode, whether or not a goroutine of it runs, and whether
or not it is still in the map (`revived`). A goroutine ends when its context is cancelled, or by itself when Mongo fails or the
collection is empty (`GiveUp`). Its load is one step (`Begin`), whose list is always complete: interrupted loads are
`ThrottledCycle`'s. Metadata in which two goroutines count, or one that a reset has stopped, is `mixed`: it holds any
number, and nothing is claimed of it until a goroutine begins a pass alone. `done`, `mixed`, `halted`, `revived` and `wanted` are history variables.

### PublishTask

`task[c]` is where a cycle is with its item: `Open` (Mongo's session), `Read` or `Skip` (`Prepare`),
`Panic` (the image filter, with a type that is no string), `Notify` (`Execute` and the notifier's
answer), `Record` (`updateProgress`). A body is the version of the document and its
`publishReference`: `stored`, `none`, or a stamp of the carousel. A hash is represented by what was hashed.
`sent[d]` is what the notifier accepted last, `answered` a history variable. `Edit` changes a document
between any two steps. `Restart` is the process that comes up again, from the last checkpoint.

## 3. Runs

| Run | Instance | What it shows |
|---|---|---|
| `ThrottledCycleRestart` | 4 documents, one of them blacklisted, 2 worker slots, 1 API client, all controls, crashes and failed restores; a call that starts or resets waits for the last worker | no resume, restart or crash skips an item (`ResumePointSound`, `PassCoversCollection`); a cancelled worker returns; a cycle publishes every item for ever |
| `ThrottledCycleOverlap` | 2 documents, 2 workers at once, Mongo and S3 writes fail | one late attempt at most; a short list is never consumed |
| `ThrottledCycleTailList` | reads of the list fail | **fails**: `ResumePointSound` (section 7) |
| `SchedulerEditor` | one caller of toggles, starts, shutdowns, health checks and failover reports; a second that adds, deletes, resumes and stops cycles; 2 cycles, 2 slots for checkpoint goroutines | the properties of the map, the mode and the checkpoint goroutine; which cycles run in a scheduler that runs, and in one that does not; every call returns, but for the deadlock below |
| `SchedulerShutdownBlocked` | a shutdown, an added cycle and a tick | **fails**: `CallsReturn` (section 7) |
| `WindowedCycleLive` | 1 worker, 3 documents modified as they are read, batches of two, a pace of 4 or 5, publishes that take 3 or 8, start, stop, Mongo fails | only late reads lose a cursor; windows are covered; one late attempt; modifications are published |
| `StateStoreRestore` | 2 clients, 1 folder, failing calls, expiring objects | a restart reads the newest state |
| `ToggleWatch` | 2 toggles of 2 values, 4 changes, files that are there at boot or not, or etcd, failing reads and watches, health checks, starts, shutdowns | both toggles are heard in the end (`HeardIsApplied`), and together decide (`TogglesObeyed`) |
| `ReadEnvironments` | 4 contents, one malformed, 4 changes, files or etcd, failing reads and watches | the environments follow what is watched |
| `ClusterHealth` | 3 services, one with two endpoints that flip meanwhile | no result is lost, no send to a closed channel, an answer |
| `CycleAdmin` | one ID, 2 cycle objects, 2 goroutines, 2 items; one thread that resumes, stops, resets and changes the throttle; creates, deletes, checkpoints, starts, shutdowns, failures of Mongo, crashes, restarts; a configuration file whose first entry is not valid | no pass skips an item though another cycle carries it on; a throttle change never loses the cycle; who left the map is being stopped; the cycle in it is published |
| `PublishTask` | 2 documents that are edited once, well formed, without a reference or with a type that is no string; 2 cycles; Mongo, the notifier and its answers fail; restarts | what is sent, under which hash, what is counted, and that nothing stays unnoticed |

The largest is `CycleAdmin` with 2 million states (a minute and a half), then `PublishTask` with
1.1 million, `SchedulerEditor` with 232,000 and `WindowedCycleLive` with 228,000 (two minutes and half a minute, most of it
for their liveness properties); the others have up to 150,000.

### Bounds, and why they are enough

* `ThrottledCycle`: the interesting values of skip are 0, inside the list, its length, and above
  it. Four documents of which three are kept give all of them, and lists whose
  ends differ from the cursor's positions. Two worker slots are enough since a third
  behaves as the second does. `Cap` bounds Completed.
* `Scheduler`: the properties relate one call to one other, or to the checkpoint. Two
  cycles let one be in the map from the start, and deleted, while the other is added;
  `Slots` bounds the checkpoint goroutines, at two, one more than the property allows.
* `WindowedCycle`: `MaxTime` stops the clock, and with it modifications. Three ticks are a
  first window, one that overlaps it and one after a cool down. The
  constants are chosen so that a batch holds more than one document, a window several batches,
  the interval meets both its bounds, and a publish is shorter than it, or longer by less than one `MaxThrottle`: one
  slow publish in a batch is within its reserve, two lose the cursor.
* `StateStore`: `MaxTime` also bounds writes, to one per second and folder. Three allow a
  write to be overtaken by another and a reader to see it before and after.
* `ToggleWatch` and `ReadEnvironments`: `MaxChanges`. A change before, during and after a
  callback, and one to come back from it.
* `CycleAdmin`: two objects are a cycle and the one that replaces it, the first still
  publishing or in the hand of a call; two goroutines are one and the one that overlaps it; two items let a pass be
  inside the list and past its end, where the count stops. One caller at a time looks a cycle up, while creates, deletes and the
  scheduler come between its steps; two callers need more states than a run may take, and are covered by the proofs, which
  bound no thread, cycle or goroutine.
* `PublishTask`: `MaxEdits`. One edit falls between any two steps of one cycle and lets the
  other send the newer version first. `NDocs` of two is one document to fail and one after it.
* `Clients`, `Workers`, `Docs`, `Objects`: symmetric in their modules, but the symmetry is used only in
  `ThrottledCycleOverlap` and `CycleAdmin`, which check no liveness.

## 4. Fairness

Only what the Go runtime and the clients' timeouts justify:

* a goroutine that can take a step takes one (`WF`); a request to Mongo, S3, etcd or
  a service is answered or times out, so that the step after it is taken;
* a call that began goes on to its end; nothing obliges anybody to make one. Nothing
  obliges a fault, a crash, a checkpoint tick, or an operator;
* locks starve nobody (`SF`): an `RWMutex` admits the readers that waited for a writer,
  a `Mutex` is handed to who waited too long, and a `select` chooses at random;
* the clock goes on (`WindowedCycle`), tickers tick (the watchers); etcd does not fail at every
  attempt for ever (`SF` of `Event`);
* a process that died is started again (`PublishTask`), as its container is.

`Republishes` excuses a worker that is cancelled, a cycle that Mongo or an empty collection made
unhealthy, and a process that is down. `UpdatesPublished` speaks of modifications
since the start of the running worker's window, and holds because modifications end with
the clock: a document modified at every instant could be outside every window for ever.
`SentOrReported` asks that a document whose stored version is not the one sent last be sent,
or counted as an error, again and again; it excuses a document that kills the process.
`CallsReturnOrBlock` excuses the one deadlock, `Blocked`, that `SchedulerShutdownBlocked` finds: TLC
so shows that there is no other.

## 5. Proofs

All are for every value of the constants that satisfies the assumptions in the modules. Each
invariant is conjoined with the type invariant, every action has a step of its own, and the
theorem `TypeCorrect` of each module is `Spec => []TypeOK` (of `Clusters_proofs`, `CheckTyped` and `EnvironmentsTyped`).

**`ThrottledCycle_proofs`.** `ResumeIsSound` and `PassIsComplete`: under the
assumption `Orderly` (no overlap, and S3 neither fails to read nor to write the list: the
conditions of `ThrottledCycleRestart`, but for any collection, any number of workers and clients, and with
failures of Mongo and of restores), `Spec` implies always `ResumePointSound` and
`PassCoversCollection`. `ResumePointSound` alone is not inductive: that the next skip is covered depends on the list in
S3 being the *whole* one, on the worker's position being that of Completed, and on no other
worker being there. `ResumeInv` says so (theorem `ResumeInvariant`): `OneWorker`, `CallersInv` (who resets has waited for
the worker), the shape of the list in S3, `LoadingInv` (what skip means while the list is being
made) and `PublishingInv` (what the position means while it is consumed). Without `Orderly`,
`CancelledIsPrompt` and `ShortListsAreDropped` prove `AtMostOneLateAttempt` and `ShortListUnused` from `ContextInv`: after a late attempt the worker
only records it and looks at its context, and a list that is short belongs to a cancelled worker that
has not looked at its context yet.

**`Scheduler_proofs`.** `MapIsStable`: `Spec => []MapStable`, for any number of
callers, whatever they call, of cycles and of checkpoint goroutines. The inductive invariant is
`ReadLockInv`: a call holds `cycleLock` for reading at all the steps in `Reading`, has cycles to
walk at no other, and a writer changes the map only when nobody reads.

The other theorems are about what the code promises only when calls do not overlap, since its locks do
not make them exclude one another. `NoOverlap` says that one thread at a time starts, shuts
down or toggles; who adds, deletes, resumes, stops and resets cycles, reports or checkpoints is free. They have the form
`Spec /\ []NoOverlap => ...`, and `OneCallerIsEnough` shows that the premise is met when one thread makes
all the calls that switch, as in `SchedulerEditor`. Three invariants carry them:

* `CallInv`, which needs no premise: which call is at which step, and who holds `toggler`.
* `ModeInv`: what a call has read of the mode is still so when it acts on it, several steps later. From it follow
  `ModeImplemented` (each step is a step of `Lifecycle` or leaves its variables alone, action by action), `OffAlwaysDisables`
  and `FailbackStaysStopped`.
* `RunInv` (theorem `RunsAsTheModeSays`): the goroutines are those the mode asks for, and at each step of a `Start` or a `Shutdown`, those it
  has come to: while it starts, those of `map \ todo`, while it stops, those of `todo`. The API's resumes and stops, which may come at any of
  these steps and in any mode, disturb it by `resumed` and `halted`: what should run does, or was stopped by the API; what runs and should not was
  resumed by it, and no `Stop` reached it since; and a goroutine that lost its cancel function is such a cycle's (`orphans \subseteq resumed`).
  `RunningIsCovered`, `StoppedIsQuiet`, `OneCheckpoint` and `ShutdownIsComplete` (always `ShutdownLeavesResumed`) are its
  consequences at the moments their properties speak of; they are not inductive. The last two say how far "Stops all cycles" is true: a
  resume, or a call that overlaps, is the only way in which it fails.

`OneDeadlock`: calls that do not overlap are stuck only where `SchedulerShutdownBlocked` is (`StuckMeansBlocked`), from
`LockInv`: every lock is held by somebody at a step between taking and releasing it. It is the safety half of
`CallsReturnOrBlock`. `Waits` says by hand when a call cannot go on; TLC compared it with `~ENABLED` of
the call's step in the states of three threads that make every call.

That the premises are needed is shown by the configurations of section 7 that let calls
overlap: each of them violates a property which is a theorem here. `SlotsAssumption` says that there is a slot for a
checkpoint goroutine; the code has no such bound, and the proofs need no second slot.

**`WindowedCycle_proofs`.** `DelayInBounds` and `BatchFitsCursor` are about the code's integer
arithmetic: the interval lies between the two throttles if they are in order, and a whole batch at the maximum throttle takes
no longer than the cursor lives. `OnlyLatenessLosesCursors`: `Spec => []CursorStaysAlive`, for throttles in any order and publishes
of any length. It says of a cursor that Mongo gave up that its batch was read late: in all by more than one `MaxThrottle`, which is the
reserve that `computeBatchsize` keeps, or at all where the timeout has no room for two intervals and there is no reserve. From `PaceInv`: since Mongo was
last asked, one `MaxThrottle` at most has passed per document taken from the batch, and the lag, the wait for the next token included. `WindowIsCovered`: `Spec => []WindowCovered`, from `WindowInv`:
from the query on, a document of the window that was not attempted and not modified since is among
those the cursor has still to return, and no window ends after the present. `OneLateAttempt`, from `LateInv`.

**`CycleAdmin_proofs`.** Without a premise, the one invariant `AdminInv` carries all four properties, which
need one another: `GoroutineInv` (a goroutine works for one cycle; the one a cycle would cancel works for it; two that publish for one
cycle count in mixed metadata, and the list of any other is at the item after those that are counted), `ThreadInv` (a call holds a cycle
that exists, a throttle change a throttled one), `CycleInv` (what a throttled cycle was made of was valid). `ThrottleKeepsTheCycle` rests on a lemma about
`CycleConfig`: the configuration made of a throttled cycle is valid whatever its throttle is set to. `OthersAreStopped` and
`TheCurrentCycleRuns` hold for any number of resumes, starts and goroutines of one cycle, because they speak of the goroutine that
`abstractCycle.cancel` cancels: one whose cancel function was overwritten is out of everybody's reach, as in `Scheduler`.

**`PublishTask_proofs`.** `HashIsStored`, `DialledOnce` and `NoErrorIsLost`, for any number of cycles, documents
and edits. `TaskInv` says that what was read is a stored body, that the item in hand is a document of
the list, and that no more is counted than the items before it.

**`ToggleWatch_proofs`.** `BothTogglesDecide`: `Spec => []TogglesObeyed`, for any values and any number of changes. The
scheduler's state has room for one reason to be off; `ModeNamesToggle` says which it
names, `HandoverInv` that nothing is handed over before it was read or seen. `NothingHeardIsForgotten`: always `SettledIsApplied`, the safety
half of `HeardIsApplied`: when a watcher has nothing more to see and its callback is over, the scheduler was told what the toggle
says, if the last change was one it could hear. `HeardInv` (theorem `HeardIsKept`) follows the change: it is in the file, the last of etcd's
events that are still to come, or the value in the callback's hand; and the boot, which would hand over an older one, was over.

**`StateStore_proofs`.** `LoadsAreFresh` and `MissingWasSuperseded`, under `Spaced` and a `PageLimit` above what a folder can hold,
for any number of folders, clients and writes. `FolderInv`: the order of the times of
a folder's objects is the order in which they were stored, and the last one is there. `ClientInv`: what a
client's listing chose is no older than what was the newest when its load began.

**`Clusters_proofs`, about `ClusterHealth`.** `NeverPanics` and `AnswersForAll`, for any number of services. The collector counts results, not
services: `CountInv` says that the count is the number of services whose result has been collected, `ChannelInv` that
a result is in the channel or collected, so that the channel is closed when all have sent. `CheckGoesOn`: the goroutines never all wait for one
another (`NeverStuck`, the safety half of `CheckReturns`), from `ClosingInv`: who counted the last result closes the channel before it receives
again. Its premise is a service to check: with none the collector would wait for ever, and `main` passes three.

**`Clusters_proofs`, about `ReadEnvironments`.** `EnvironmentsTyped`, for any contents, faults and changes, with `ShapeInv`: a goroutine works once
the boot is over, and only the holder of the lock reads or updates. `ParsedAsSeen`: always
`SeenIsParsed`, under `VersionsGrow`: a file does not go back to contents it had; the key of etcd may.
The property compares three things for equality, and is not inductive; `OrderInv` (theorem `VersionsOrdered`) compares the
versions instead. What was parsed of a file is never newer than it, and not older than what its watch saw once the watch is waiting again, although
the *other* file's callback may have parsed it: that one read it under the lock, not before what the watch saw. When
the watch saw the file as it is, the two bounds meet. `ReadEnvironmentsRestored` shows that the premise is
needed.

Only model-checked: every liveness property, since the prover knows neither fairness over these formulas nor
`ENABLED`. What four of them rest on is proved instead, as an invariant: `StuckMeansBlocked`, `NeverStuck`, `SettledIsApplied` and, for
`EnvironmentsFollow`, `SeenIsParsed`. TLC compared the first two with `ENABLED` in small instances. Every safety property of the runs, and the
refinement, is also proved, under the premises above.
No function over data of any length is proved by induction, and none is needed: the modules
use sets and arithmetic, and no recursive operator.

## 6. Hazards

`PROJECT.json` lists them at their lines. In short: two goroutines of one cycle; a resume
point that counts on a list in S3; loads, publishes and calls that overlap; shared locks held for
reading by who writes; an unbuffered channel under a lock; flags read one after the other; a cycle
that is replaced while it publishes; two toggles over one state;
changes missed between a read and a watch; a latest object that is not; cursors that expire; a
document that is edited, or fails, between being read and sent.

## 7. Disagreements between code and documentation

Two are runs that must fail:

* **The tail of a list is persisted as the whole** (`ThrottledCycleTailList`). When the list in S3
  cannot be read, the UUIDs after skip are loaded from the cursor, and saved as the collection's list
  (`native/in_memory_collection.go:103`). A later resume skips Completed items of *that* list, which were
  never attempted. `README.md:145`: "start republishing from the 301st item in the cursor".
* **A shutdown that never returns** (`SchedulerShutdownBlocked`). `Shutdown` sends on `stopChan` with the read
  lock held (`scheduler/checkpoint_handler.go:43`); the checkpoint goroutine wants that lock, behind an
  `AddCycle` that waits for `Shutdown`. `api/api.yml:264`: "Stops all cycles. Useful in a production incident."

The others have a configuration each, beside the runs, and a property at the end of its module, stated
as the documentation does. TLC finds each of them violated:

| Configuration | Property | What happens |
|---|---|---|
| `ThrottledCycleRestartOverlap` | `ResumePointSound` | a cycle resumed while its last worker is publishing (`resources/cycles.go:115`) counts items twice, and a later resume skips items (`README.md:145`) |
| `ThrottledCycleLateRecord` | `ResetStartsOver` | the worker that `Reset` stopped records one more item in the cleared metadata (`scheduler/cycle.go:121`; `api/api.yml:244`: "resets it back to the beginning of its iteration") |
| `ThrottledCycleStopWhileLoading` | `UnhealthyMeansMongo` | a stop during the load leaves an empty list, and an unhealthy cycle (`scheduler/throttled_whole_collection_cycle.go:60`; `README.md:163`: "only become unhealthy due to connectivity issues with Mongo") |
| `ThrottledCycleStoppedWhilePublishing` | `StoppedMeansIdle` | the old worker reports the resumed cycle stopped (`scheduler/throttled_whole_collection_cycle.go:66`; `README.md:159`) |
| `CycleAdminResumeDeleted` | `DeletedDoNotRun` | a cycle deleted between the look-up and the start of a resume runs (`resources/cycles.go:115`; `api/api.yml:146`: "Deleted cycles cannot be resumed, and must be recreated") |
| `CycleAdminUndeleted` | `DeletedStaysDeleted` | a cycle deleted while its throttle is changed is put back (`resources/cycles.go:221`; `api/api.yml:146`) |
| `SchedulerShutdownDuringStart` | `ShutdownStopsAll` | `Start` and `Shutdown` interleave (`scheduler/scheduler.go:200`; `api/api.yml:264`); with `CallsOf <- ShutdownAndResume` instead, a cycle that was resumed while it ran goes on after the shutdown (`resources/cycles.go:115`) |
| `SchedulerOffLost` | `OffDisables` | a toggle whose `Shutdown` fails, because a health check was first, does not disable (`scheduler/scheduler.go:244`; `README.md:173`) |
| `SchedulerStartedWhilePassive` | `PassiveStaysPassive` | a start overlaps a failover (`scheduler/scheduler.go:146`; `README.md:169`) |
| `SchedulerRestartedAfterFailback` | `NoRestartAfterFailback` | a health check overlaps a failback (`resources/healthchecks.go:216`; `README.md:171`) |
| `SchedulerFailoverMisreported` | `ReportIsTrue` | a failover between two reads of the state is reported as a manual disable (`resources/healthchecks.go:271`, and its messages) |
| `WindowedCycleStopAsleep` | `CancelledWorkerExits` | with empty windows the context is never looked at (`scheduler/time_windowed_cycle.go:81`; `api/api.yml:204`) |
| `WindowedCycleWindowGrows` | `WindowsAbut` | every window starts where the first one did (`scheduler/time_windowed_cycle.go:37`; `README.md:115`) |
| `WindowedCycleUnpaced` | `IterationsArePaced` | the throttle waited on was cancelled twelve lines before (`scheduler/time_windowed_cycle.go:63`, and the comment at `:75`) |
| `WindowedCycleCursorLost` | `CursorOutlivesBatch` | a minimum throttle above the maximum, which nothing checks (`scheduler/config.go:57`), is slower than the batch was computed for, and the cursor times out; so it does with `MinThrottle = 4` and `PublishTimes = {8}`, as items of thirty seconds each (`main.go:190`) do (`native/native_uuid_collection.go:63`, the comment) |
| `StateStoreFullFolder` | `LoadIsFresh` | a listing returns a thousand keys, the oldest (`s3/service.go:121`, and the comment at `:21`) |
| `StateStoreSameSecond` | `LoadIsFresh` | of two objects of a second, the first listed wins (`s3/service.go:133`) |
| `ToggleWatchMissed` | `ToggleFollowed` | a change between the read and the first watch of etcd is not seen (`main.go:262`; `README.md:173`) |
| `TogglesPassiveRuns` | `PassiveIsDisabled` | a passive carousel that is also switched off by hand is enabled when it is switched on by hand (`scheduler/scheduler.go:238`; `README.md:169`) |
| `TogglesShutdownUndone` | `ShutdownLasts` | the health check starts again what the operator shut down (`resources/healthchecks.go:216`; `api/api.yml:264`, `:277`) |
| `PublishTaskUntyped` | `EveryDocumentIsTried` | a document whose type is not a string ends the process, at every restart (`image/filter.go:28`; `README.md:87`: "continuously iterating") |
| `ReadEnvironmentsUnread` | `AlwaysFollow` | a change is dropped when the other file cannot be read (`cluster/file/read_environments.go:74`, and the comment at `:66`) |
| `ReadEnvironmentsRestored` | `AlwaysFollow` | contents put back before their own watch ticks stay replaced (`file/watcher.go:94`) |

With `Sources = {"file"}` `ToggleWatchMissed` fails as well: a toggle file that is created after the boot made its list of files is never read
(`file/watcher.go:63`; `README.md:173`). `HeardIsApplied` states what holds of both sources, with the condition that each needs.

## 8. What is not modelled

* The blacklist (a scan of a file, represented by `Kept`) and the YAML parser of the configuration.
* Mongo's driver, S3, etcd and the notifier themselves: external, modelled from how the code uses them.
* The GET handlers, the API description, the log level, and the health checks of Mongo, S3, the
  notifier and the cycles: they read a state and format it.
* JSON, HTTP, flags, logging, the format of files and messages: no property is about them.
* Data races on `cancel`, on the map that `Cycles()` returns, on the cycles that `GetCycles` marshals and on the S3 session: what they
  could do is end the process or tear an answer, and the models keep the interleavings around them.
* The Mongo sessions that UUID collections copy and never close (`native/mongo.go:79`): the leak is unconditional, there is
  nothing to interleave.
* Negative durations of a scaling window, which parse. mgo's prefetch of the next batch.
* Two throttle changes of one cycle at once in a run of `CycleAdmin` (the proofs have them).
* The throttle's value: a throttle of zero or less, which the API accepts, delays nothing
  (`scheduler/throttle.go:48`); the models assume no pace of a throttled cycle.

## 9. Plan

Done, in this order: `ThrottledCycle`, its resume invariant and proof; `Scheduler` with `Lifecycle` and its
proof; `WindowedCycle` and its proof; `StateStore`, `ToggleWatch`, `ReadEnvironments`,
`ClusterHealth`; then `CycleConfig` and `CycleAdmin`, `PublishTask`, both toggles and the health check in `ToggleWatch`, etcd in
`ReadEnvironments`; and the proofs of `CycleAdmin`, `PublishTask`, `ToggleWatch`, `StateStore`, `ClusterHealth`, of the
covered window and of prompt cancellation; then those of `Scheduler` for calls that do not overlap, with its refinement and its deadlock, and of
`ReadEnvironments`; and the safety halves of `CallsReturnOrBlock`, `HeardIsApplied` and `CheckReturns`; the API's resume, stop and
reset of one cycle in `Scheduler`, overlapping goroutines and failures in `CycleAdmin`, publishes that take time in `WindowedCycle`, unlisted files in `ToggleWatch`, each
with its proofs.

Next:

1. The safety half of `SentOrReported` and of `CallsReturnOrBlock` without `NoOverlap`: which deadlocks overlapping calls add.
2. A composition of `Scheduler` with `StateStore` for two cycles: a shutdown's last save beside a checkpoint of both.

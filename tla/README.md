# CloudBurrow in TLA+

CloudBurrow runs local stand-ins for Google Cloud services in one process:
each service keeps its state in a metadata store, serves an API over gRPC and
REST, and some run a worker that acts on that state in the background. This
project specifies the parts of it in which order matters: what happens when
API calls, worker passes, deliveries, crashes and restarts interleave.

It covers **Cloud Tasks**, **Cloud Scheduler** and the **durable metadata store**
both keep their state in end to end; **Secret Manager**'s store over the cluster;
**Memorystore**'s created instances with their **long-running operations**;
**Cloud Storage**'s metadata log and resumable uploads, with the **supervisor** that
keeps its backend running; and the **coordinator** that starts and stops the services.
The rest of the repository
(about 350,000 lines, most of it request translation, validation and console
pages) is listed below with what is planned and what is not worth a model.
Only a small share of the source lines is mapped.

Contents: the system · modules and code · runs · fairness · theorems ·
findings · what is not modelled · plan.

## The system

| part | code | module | state |
|---|---|---|---|
| Cloud Tasks store | `internal/service/tasks/store.go` | `TasksStore` | queues, tasks, tombstones |
| Cloud Tasks worker and dispatcher | `internal/service/tasks/dispatch.go`, `appengine1447.go` | `TasksDispatch` | due list, in-flight marks, attempts |
| a queue's rate limit | `dispatch.go` (`rateBucket`) | `TokenBucket`, `RateBucket` | next theoretical arrival |
| retry schedule (Tasks and Scheduler) | `internal/sched/cloudtasks.go` | `CloudTasksBackoff`, `RetrySchedule` | none (pure) |
| Cloud Scheduler | `internal/service/scheduler/{runner,store,server}.go` | `CloudScheduler` | jobs, the pass, deliveries |
| metadata store, durable | `internal/store/store.go` | `DurableStore` | lock file, metadata file, memory |
| metadata store, its promise | the same, `Memory` | `AtomicStore` | a map changed by whole batches |
| Cloud Tasks batches | `internal/service/tasks/grpc1215.go` | `TasksBatch` | calls with one request id, the operation recorded under it |
| Secret Manager | `internal/service/secrets` | `SecretManager` | the cluster's Secrets, their copy in memory, the sweeping loop, mounts |
| Memorystore instances | `internal/service/redisadmin` | `MemorystoreInstances` | record, busy mark, server, goroutines |
| long-running operations | `internal/lro` | `MemorystoreInstances` | state of each operation |
| Cloud Storage metadata | `internal/service/storage/{metastore,versions}.go` | `StorageLog` | map, snapshot, log, where `Update` is |
| Cloud Storage uploads | `internal/service/storage/resumable.go` | `StorageUploads` | session, the requests being served, the object's versions |
| supervisor | `internal/supervisor` | `Supervisor` | the loop, the child, its watcher and a late one |
| coordinator | `internal/lifecycle`, as `cmd/cloudburrow/up.go` calls it | `Lifecycle` | components, workers, where `up` is |

How they interact: API handlers and workers share a service's store and
nothing else. A worker lists what is due, marks it in flight, and starts a
goroutine per attempt; the goroutine writes its outcome back into the store
under a name that may by then belong to something else. The store's own
operations each run under one mutex. In a persistent instance every store
operation is one `Commit` of the durable store, which rewrites the metadata file
by temporary file, sync and rename. The coordinator (`internal/lifecycle`)
cancels workers, waits for them up to a deadline, then closes components; a
stop that times out looks to the state like a crash. Secret Manager keeps its
state in the cluster instead: a call is several requests to the API server, each
of which may fail after it took effect. Memorystore's calls return an operation
and leave the work to a goroutine. Cloud Storage has a store of its own, a log of
transactions with a snapshot, and its upload handlers read and write a session in
separate transactions of it; the supervisor runs its backend as a child process.

The services' models take a store operation to be one atomic step. What
justifies that for a persistent instance is the refinement `DurableStore` =>
`AtomicStore`: one batch, whole or not at all.

## Modules and code

**`TasksStore`** has the variables of the store (queues, tasks by name,
tombstones with their times) and one operator per method that changes them:
`CreateQueue`, `UpdateQueue`, `SetQueueState` (pause and resume), `DeleteQueue`,
`PurgeQueue`, `CreateTask`, `DeleteTask`, `UpdateTask`, `RunTask`, `TakeRun`. A
task keeps the fields dispatch depends on (queue, schedule time, dispatch
count, first attempt, the run requested, who scheduled it). Payloads and views
are left out; `made` numbers the creations of a name so that properties can tell
an old task from a new one of its name.

**`TasksDispatch`** composes the store with the worker and the dispatcher. A
pass (`BeginPass`, `ListDue`, `Turn`, `MarkDue`/`MarkForced`, the re-read,
`StartDue`/`StartForced`, `EndPass`) is cut at every point where `startAll` gives
up a lock. An attempt (`Send`, `BuildFails`, `Acknowledged`/`Refused`,
`DeleteDone`, `RecordFailure`, `Reread`, `Decide`, `Drop`/`StoreSchedule`, `Exit`) is
cut at every store call. `Cancel`, `Stopped`, `Crash`, `Down` and `Restart` are the
coordinator's and the service's start and stop. The target's answer is a
nondeterministic choice.

**`TokenBucket`** is the arithmetic of `rateBucket.take`; **`RateBucket`** is a
bucket with a clock and a history of takes; **`RetrySchedule`** walks the retries
of every small configuration against a reference definition of the schedule.

**`TasksBatch`** is `BatchCreateTasks`/`BatchDeleteTasks` with a request id: lookup
(`BeginBatch`), the requests one by one, recording the operation, whose write may
fail, and the end of the process between any two.

**`CloudScheduler`** has the calls of the API (those that read the clock or a job
before they take a lock are two steps: `ReadClock`/`GetToRun`, then `CreateJob`,
`UpdateJob`, `ResumeJob`, `RunJob`), the pass of the runner (`List`, `ReadNow`,
`Advance`, `FireListed`, `EndPass`) and deliveries (`Begin`, `Attempt`, `Record`,
`Again`/`Abandon`, `Exit`). A cron schedule is the period of its slots; period 0
stands for one that has none.

**`DurableStore`** cuts `OpenDurable`, `Commit`, `flush` and `Close` at every system
call. A lock file, the metadata file as processes see it (`file`) and as a power
loss would leave it (`saved`), and each instance's memory are its state; an
instance may be killed between any two steps and any call of `flush` may fail.

**`AtomicStore`** is the abstract specification: a map changed by whole batches
(`Commit`), a durable copy of it (`Settle`), and the loss of what was not durable
(`Lose`).

**`SecretManager`** has one secret ID, two version numbers and three places for
them: the cluster, KubeStore's copy of it, and the mount Secret with decrypted
versions. Each call of the store is one step, since one mutex is held over it, but
its outcome is that of the requests it makes one after the other (`Request`, `Then`;
`Adding`, `Scheduling`, `Deleting`, ... are the calls): all answered, or stopped at the
first that fails, carried out or not (`Failing`). A call with a request per version
(`RunsDue`, `RefreshMounts`) stands, at its k-th, as the versions before it leave it. `Sweep` and `RunWakes` are the loop that
expires, rotates and destroys; `Advance`/`AdvanceSweeps` move its clock;
`ResolveRef`, `ReadRef` and `MountRef` are the three locked parts of
`ResolveSecretRef`; `RefreshMounts` is the second loop.

**`MemorystoreInstances`** has one instance name. `Find` and `Locks` are the two halves
of a call (a check without the lock, then the call under it); `LocksNothing` and
`Panics` are what happens when the record went in between. Goroutines are records in
`workers` that provision, remove, import or export, settle under the lock, and end
their operation after it. `ResetProject`, `Restored` (Restore after a stop), and the key
check (`AsksKey`, `ActsOnKey`) run beside them.

**`Lifecycle`** has the goroutine of `up` (`BeginStep`, `Record`, `StepDone`,
`BecomeReady`, `RegisterWorker`, `StopBegins`, `Drained`, `StopNext`, `Ended`), a goroutine
for each component of a concurrent group (`StartReturns`) and for each worker, and
the signal.

**`StorageLog`** is `LogMetaStore`: `WriteRecord`, `SyncRecord` and their failures are
`Update`, cut at every call of the file; `WriteSnapshot`, `RenameSnapshot` and
`TruncateLog` are `compact`; `ProcessEnds` leaves a line that was not synced whole, torn
or gone, and `OpenLog` replays. The transactions are those that make and remove
versions of one object of a versioned bucket.

**`StorageUploads`** is one resumable upload: `Chunk` (the session is read),
`PutChunk` (it is written back with the bytes), `Finish` (the object is committed) and
`RecordDone` are the transactions of `resumableChunk` and `resumableFinish`, with
requests that the client has given up going on beside new ones.

**`Supervisor`** has Supervise's loop (`StartChild`, `StartFails`, `Reaped`, `Restart`,
`StopSeen`, `StopEnds`), the child's watcher (`Check`, `WatcherKills`) and the watcher of
an earlier child that is still about to kill it (`late`).

**`Parts`** puts the parts that share no state into one specification: a behaviour is
one of one part, chosen at the start.

`MC*` modules give the sets and configurations the `.cfg` files name. Definitions
labelled *Mutant* are plausible wrong versions of the definition after them; each
property of each passing run is known to fail for one of them.

## Runs

| run | configuration and bounds | shows |
|---|---|---|
| `parts`: bucket, retries | interval 2, burst 3, clock to 6; every retry configuration over small values with unset fields, 7 retries | takes in any window stay within the rate plus one burst (`RateBound`); `Delay` is the documented doubling-then-linear schedule and never zero (`ScheduleMatches`) |
| `parts`: batches | three calls of two requests | a repeat of a request id that begins after a call returned runs nothing and returns an earlier operation |
| `parts`: secrets | six scenarios of one or two dimensions each: two versions, two creations of the ID, expiry, delayed destruction, rotation, customer-managed keys; up to one failing request, clock to 2, restarts at will | versions belong to the secret there is, numbers are not reused, destroyed versions stay destroyed and cancelled destructions are not carried out; what is overdue is swept and plaintext goes (liveness) |
| `parts`: memorystore | two creations of the name, two operations, one reset, deleted operation, restart or loss of the key | the busy mark always has its goroutine, an idle instance agrees with its record and server, operations end once, and end (liveness) |
| `parts`: lifecycle | six components in the shape 1, 2+2 concurrent, 1; two workers, one registered late | dependencies up, nothing left up, workers have their components, and `up` ends after the signal (liveness) |
| `parts`: storage | four transactions, one failing call, a log compacted after one record; a file of three units, two requests served at once, two given up, one failure | what was acknowledged survives every end of the process unless a line was written after a torn one (`NothingLost`); every version an upload makes is the file, and an upload ends (liveness) |
| `parts`: supervisor | grace 2, period 1, two 503s, one failed start | a child is killed only for what its own watcher saw; one that ended runs again, one that keeps failing goes, a signal ends both (liveness) |
| `tasks_races` | one queue, one name created twice, two goroutines, every client operation, clock to 2 | one attempt of a task at a time, in-flight marks and queue counts exact, an acknowledged task not sent again, no removed task revived by a write-back |
| `tasks_two` | two tasks of one queue, three goroutines, one task that cannot be built, one for App Engine, forced runs; the queue's limit is 1 or 2 and changes, the queue is deleted and created | a scheduled attempt starts only within the limit its pass has read for its queue, which is the queue's own at that moment |
| `tasks_restarts` | one task, two RunTasks, up to two stops or crashes, changing retry limits | attempts bounded by MaxAttempts plus the crashes that lost a record; one RunTask starts one attempt |
| `tasks_live` | one task, one goroutine, pauses, RunTask, deletion | every RunTask is honoured, every due task served (liveness) |
| `scheduler` | one name, two schedules, two two-step calls, two goroutines, one crash or stop, clock to 2 | one delivery of a job at a time, each slot fired once, missed runs not made up, every delivery ends, nothing stays due (the last two are liveness) |
| `durable_store` | two instances, three launches, two keys and values, one power loss, any call failing, one instance starting at a time | one owner of the directory, memory equal to disk outside a commit, refinement of `AtomicStore` |
| `tasks_inherit`, `tasks_unbuilt`, `scheduler_never`, `durable_race`, `storage_torn` | as above, each with what its finding needs | violations: see *Findings* |

`parts` also checks the types of the bucket, Secret Manager and Memorystore
(`PartsTypeOK`). Those of `TasksDispatch`, `DurableStore` and `CloudScheduler` are left to
theorems, as are properties that
hold at every bound by a proof that a run would only repeat: `TasksHaveQueues`,
`NeverTorn`, `TokenWithinInterval`. In `parts` liveness is stated as `[]<>P`: nothing
stays pending, running or unseen for ever.

Why the bounds are enough to be of interest: a race here is between the pass,
an attempt and one or two calls on the *same* name, so one name, created twice,
reaches it; two goroutines are what a second, wrong attempt needs; two time units
let a task become due, fail, and become due again, and let a tombstone expire; and
one crash can fall between any two steps. The theorems below remove the bounds for
the safety properties that matter most. Goroutines are symmetric in the safety
runs; no symmetry is used in the runs with liveness properties. Deadlock is not
checked where the system may stop for good within the bounds (all work done, the
clock at its bound, no launch left); it is checked in `scheduler`, whose passes never
end. The scenarios of `SecretManager` keep its dimensions apart because their product
is out of reach: each failure and each race found while modelling it needs one or two
of them. Two versions are what a mix-up of numbers needs, and one failed request is
what leaves a call between two writes. For Memorystore two creations let a goroutine of
the first meet the second. For the log, four transactions are a version that is made,
retired, removed and followed by another, with a compaction between any two. For the
uploads, three units and two requests given up let a stale request write over two later
ones.

Three variables keep what a property does not claim out of it, each named in its
comment: `torn` (a deletion of a secret failed part-way, after which `OwnVersions` is not
claimed), `overlapped` (something ran on an instance beside its busy mark, after which
`IdleConsistent` is not) and `lost` (a batch's operation could not be recorded). The
hazards in `PROJECT.json` say what happens then.

Two constants state what the passing runs assume of the environment:
`SlowCalls = FALSE` (a scheduler slot, a minute, does not come within the
milliseconds of a call or a pass) and `MaxStarting = 1`, `LateCommits = FALSE`
(instances of one directory are not started at the same moment; no commit is
running when the store is closed). With the opposite values TLC finds the
behaviours recorded as hazards and findings.

## Fairness

In `parts`, Secret Manager's two loops run (`for` around a timer or a channel), an
Advance that moved the clock sweeps, Memorystore's goroutines make their next step
(for each operation), `up` goes on, and a component's Start returns. The supervisor's loop
and its watcher run and time passes; a client of an upload goes on until it has an answer,
and handlers make their next step. Nothing is assumed of workers, requests to the
cluster, keys, the child process, its front or other clients. Conditions of different parts are joined in one
`WF`: only one of them can ever be enabled in a behaviour of one part.

`tasks_live` and `scheduler` assume that the worker's loop goes on (it is a `for`
around a timer), that each goroutine makes its next step (each step is a call with
a deadline or local code), that a call under way takes its lock, and that time
passes. In `scheduler` the clock is strongly fair because the model lets it move
only between passes, which start again and again; the real clock waits for nothing.
Nothing is assumed of clients, targets, crashes or stops. A timer past the clock's
bound goes off at the bound.

## Theorems

TLAPS checks every proof to its leaves. They hold for all values of the constants
that satisfy the named `ASSUME`s (types of the constants and distinctness of the
"none" values) and the assumption given here.

| theorem | assumption | argument |
|---|---|---|
| `PartsProofs!BucketBoundsRate`, `BucketKeepsRate` | none | invariant `IInv`: the next arrival never lags the clock and never leads it by more than a burst; each take moves it by an interval, so takes and time balance |
| `PartsProofs!BucketCharges` | none | the same invariant: each take moved the next arrival an interval past every earlier take |
| `PartsProofs!BatchRepeats` | none | `BatchInv`: once a call has returned an operation is recorded unless one was lost, what is recorded is a call's that ran, and a repeat that began later has found it |
| `PartsProofs!RetriesOnSchedule` | `PowersAssumption` (the law of powers of two, evaluated by TLC: the provers do not know `^`) | `RetryInv`: the wait accumulated retry by retry is a closed form of the number of retries, in the doubling part, in the linear part and at their border |
| `PartsProofs!SupervisorKills` | none | `WatchInv`: what a watcher has counted took it that many periods after the grace, so the child's age is at least that; the kill of a late watcher reaches no running child |
| `StorageProofs!UploadsWhole` | none | `UploadInv`: the session and every copy of it in a request are a beginning of the file, and a request that finishes holds all of it; `ObjectIsWhole` alone says nothing of what will be committed |
| `StorageProofs!AcknowledgedKept` | none | `LogInv`: memory is one of the states callers may find, a log is whole lines of transactions, and snapshot and memory differ only in versions the log writes or adds, so the log replays onto either. `NothingLost` alone says nothing of the memory, from which compaction makes the next snapshot. What a replay computes is shown by induction over the log |
| `StorageProofs!SoundDiskLosesNothing` | `MaxDiskFaults = 0` | the same, with `SoundLog`: without a failing call only an end of the process tears a line, it is the last one, and opening the log removes it. `AcknowledgedSurvive`, which finding 5 violates, then holds as it stands |
| `TasksDispatchProofs!TypeCorrect` | none | `Typed` adds what the pass holds at each point of a turn |
| `TasksDispatchProofs!OneAttempt` | none | `MarkInv`: a name is marked exactly while one attempt or the pass holds it. `OneAttemptPerTask` alone is not inductive: it needs that a missing mark means a missing attempt |
| `TasksDispatchProofs!AckedIsLast`, `RunsStartOnce` | none | `AckInv`: an acknowledged task that is still stored is held by an attempt about to delete it, and no other copy of it is past the pass's re-read; a run number is taken from the store in the step that starts it |
| `TasksRecordProofs!TombstonesHold` | `Deadline < TTL` | `TombInv`: every copy of a task an attempt may still write is younger than the tombstone that would block it |
| `TasksRecordProofs!QueuesOutliveTasks` | tasks are created under the queue of their name | `QueueInv`: a stored task and every copy of it in flight is in the queue of its name; deleting that queue removes the record without which a write-back is refused |
| `TasksRecordProofs!CountsExact` | the same; finitely many goroutines | `CountInv`: a queue's count is the number of its attempts plus the mark the pass holds, listed tasks and attempts being in the queue of their name; each action adds to or takes from both sides |
| `TasksRecordProofs!ConcurrencyKept` | the same | `RoomHeld`: while the pass holds the mark of a scheduled task its queue has fewer scheduled attempts than the limit read for it. The mark is taken below that limit, counting forced runs too (`CountInv`), no limit is read and no other attempt starts before the mark is given up |
| `TasksRecordProofs!LimitOwn` | the same; `FixedLimits` (clients make no UpdateQueue and no DeleteQueue) | `FixedInv`: listed tasks and attempts are of queues there are, and a limit that was read is the queue's; so the number out never exceeds the queue's own limit (`OwnLimitKept`). With a limit lowered while attempts are out, or a queue deleted and created within a pass, it may |
| `TasksRecordProofs!AttemptsLimited` | the same; `Limited` (every queue limits attempts and sets no retry duration), `Buildable` | `TryInv`: attempts of a stored task, of each copy in flight and of the copy a pass read are at most its count plus the crashes, one more while the attempt is not recorded, and whenever the record may be attempted again there is room for one more below some limit. The stored count alone bounds nothing: the attempt that is out is not in it, and a crash loses it |
| `CloudSchedulerProofs!TypeCorrect`, `DeliveredOnce` | none | the marks are the names of the deliveries; `fire` takes an unmarked name only |
| `CloudSchedulerProofs!SlotsFiredOnce`, `PausedSlotsSkipped` | `~SlowCalls`, `0 \notin Periods` | `SlotInv`: next runs, stored and listed, are later than all slots fired, and between advancing a job and firing it the stored one is in the future. `SlotsOnce` alone says nothing of what will be fired next. Slots missed by a paused job are not later than the clock, next runs of a resumed one are |
| `DurableStoreProofs!SingleOwner` | `MaxStarting = 1` | `OwnInv`: the owner's lock is the one in the directory, and what a starting instance concluded from it still holds |
| `DurableStoreProofs!WholeFile` | none | `SyncedInv`: only synced contents are renamed into place |
| `DurableStoreProofs!MemoryIsDisk`, `Implements` | `MaxStarting = 1`, `~LateCommits` | `DataInv`: what each step of `flush` has in memory, in the temporary file and on disk; each step is then a step of `AtomicStore` or none |
| `PartsProofs!LifecycleDependencies`, `LifecycleUnwinds`, `LifecycleWorkers` | none | `LifecycleInv`: at each point of `up`, which components are up and that `started` or `closing` lists exactly those, in ascending order; the last of the list may then be stopped without taking away what another needs |
| `PartsProofs!MemorystoreTyped`, `MemorystoreBusy`, `MemorystoreFinal` | none | operations are made in order (`OperationsInOrder`), so a new one was none before; the goroutine that a mark names clears it in the step in which it settles |
| `PartsProofs!MemorystoreAgrees` | none | `Ordered`: until something overlaps, at most one goroutine is between its start and its settling, it holds the mark and works for the record that is there, and what it has done so far is what its place says |
| `SecretProofs!SecretsTyped`, `VersionsOwned`, `NumbersKept`, `DestructionLasts` | none | `SecretInv`: beside the types, every version of a secret has a number below the secret's next one, by the record in the cluster and by the one in memory; the two copies of a version do not differ in payload except that one is destroyed, and what memory takes for destroyed is. A call that fails leaves memory behind the cluster, and the next call writes what memory has: without the agreement of the copies it could write a payload or a state back. Shown of a request, then of a call, then of a step |
| `SecretProofs!CancelledNotSwept` | none | the same invariant; of the calls only a sweep is concerned, and it destroys what the version itself says is scheduled |
| `ComposedProofs!PartsIndependent` | none | a step of `Parts` is a step of one part and leaves the variables of the others alone, so its behaviours are behaviours of every part's own specification |
| `ComposedProofs!PartsTyped`, `PartsSafe` | `PowersAssumption`, as above | the theorems of the parts, through `PartsIndependent`: the type invariant and the safety properties of the run `parts`, of the specification that run checks |

The assumptions of `AttemptsLimited` are needed: a retry duration keeps a task beyond
its attempts, a negative limit is none, a request that cannot be built is not counted
(finding 2), and a task under a queue its name does not say outlives that queue.

The theorems about a part are about its safety specification (`SecretSpec`,
`LifecycleSpec`, ...); the same with the fairness its code justifies is `SecretFairSpec`,
`LifecycleFairSpec`, and so on. Proofs are in `TasksDispatchProofs` and
`TasksRecordProofs` (Cloud Tasks), `CloudSchedulerProofs`, `DurableStoreProofs`,
`SecretProofs`, `StorageProofs` (uploads and log), `PartsProofs` (supervisor, coordinator,
Memorystore, bucket, batches, retries) and `ComposedProofs`. The inductions over data
(the log, a sequence's length) are done by least counterexample, from the
well-foundedness of `<` on the naturals.

Only model-checked: the liveness properties, since fairness and ENABLED are outside the
prover. Every safety property that a passing run checks is also proved.

## Findings

1. `tasks_inherit`: the write-back of an attempt lands in a queue and task of the
   same names created after the old ones were deleted (`tasks/store.go:582`).
2. `tasks_unbuilt`: a task whose request cannot be built is retried without end
   and without waiting, because the attempt is not counted (`dispatch.go:169`).
3. `scheduler_never`: a job scheduled for a date that never comes is fired at every
   pass, because the zero time of "no next run" counts as due
   (`scheduler/runner.go:150`).
4. `durable_race`: of two instances reclaiming a stale lock together one may remove
   the other's new lock, and both own the directory (`store.go:191`).
5. `storage_torn`: after a write of the log that failed part-way, transactions are
   acknowledged behind the torn line and lost at the next start
   (`storage/metastore.go:315`).

More disagreements with comments have no run of their own. As hazards in
`PROJECT.json`: overlapping batches of one request id each run; a deletion of a secret
that fails part-way may leave versions that a later secret of the ID lists; a destruction
whose second write fails is never carried out; a create that fails, and a project reset,
may remove the server of an instance created since; a commit still running when `Close`
gives up the lock may be renamed over what the next instance has loaded
(`LateCommits = TRUE`); an append of the storage log that is replayed onto a snapshot which
has it lists a version twice, against `metastore.go:333-336` (`ReplayHarmless`); a chunk of
an upload brings back a session cancelled meanwhile, and what a session has received may
shrink, against `resumable.go:24` and `:31` (`CancelledGone`, `ReceivedKept`). And, with no property about them:

- a queue paused after the due list was read still starts what was listed, until the
  next pass (`dispatch.go:480`);
- RunJob answers OK without a run while a delivery is out (`scheduler/server.go:429`),
  and one answered before `Run` has a context that never ends (`runner.go:66`);
- the outcome of a delivery is written to whatever job has the name by then
  (`runner.go:198`);
- when the second request of a secret's deletion fails, memory still has what the
  cluster lost (`kube.go:196`), and Advance's offset ends with the process
  (`schedule.go:215`): both are steps of the model;
- a sweep ends at the first secret that fails (`expiry.go:131`), and a rotation notice
  is sent again when the write after it fails (`schedule.go:143`): one ID is modelled, and
  no notices;
- operation names count from one again after a restart (`lro.go:85`);
- an upload without a precondition, repeated after its session's Done could not be
  written, makes a second version of the object (`resumable.go:325`).

## What is not modelled, and why

`PROJECT.json` lists every component with its reason, and for one that is not modelled
the largest files of its directories. In short:

- *planned*: timer scheduler, Cloud Logging, Cloud SQL, Pub/Sub front bookkeeping;
- *of Cloud Storage*: compose, copy, lifecycle rules, notifications, the blobs' own
  files;
- *of Secret Manager*: several secret IDs in one sweep, policies, labels, topics and
  the notices sent to them, the migration of the layout before #1596, and a list request
  that fails: at a start it ends the start, after a reset the next call finds no secret;
- *of Memorystore*: UpgradeInstance (`versions.go:64`), which takes the busy mark as an
  import does, the Standard tier's nodes, maintenance, configuration, AUTH, and
  writes of the durable store that fail;
- *state of others*: the fronts of Pub/Sub, Bigtable, Spanner, Firestore and BigQuery
  stand before upstream emulators, and Cloud Run before a cluster; what matters
  there is outside the repository;
- *data, not control*: SQL translation, request validation, protobuf and JSON
  conversion, cryptography, model execution;
- *presentation and observation*: console, admin pages, metrics, traces, doctor;
- within the modelled parts: IAM policies, paging, payloads, request building
  (only whether it succeeds), log lines; failing writes of the metadata store are
  in `DurableStore` and not in the services above it.

## Plan

In order; each step is a module, its run or runs, and then its proofs.

1. **Composition**: `Lifecycle` with the services, replacing their own
   `Cancel`/`Down`/`Restart` steps.
2. **Cloud SQL** (`internal/service/sqladmin`) on the operations of
   `MemorystoreInstances`, which then become a module of their own.
3. **Timer scheduler** (`internal/sched`) and **Cloud Logging** (retention, tailing).
4. **Cloud Storage**: compose, copy and lifecycle rules over `StorageLog`.
5. Proofs: a refinement of the services' stores to `AtomicStore`.

# Formal models of Ray Train v2, the training engine of this repository

The repository trains a transaction foundation model (`tfm_repo/`) on a
vendored, full checkout of Ray (`ray/`). Its own core logic at run time is Ray
Train v2 (`ray/python/ray/train/v2`): one *controller* actor drives a training
run over a group of worker actors, restarts them when they fail, keeps the
checkpoints they report and ends the run with a result. That engine is
concurrent, restartable and fault tolerant, and it is what this project models.

## Inventory

| Component | State | Operations | Hard behaviour |
|---|---|---|---|
| Train controller (`execution/controller`) | controller state, worker group reference, run attempt id, last poll time | one iteration of the control loop per state; `abort()` | two coroutines on one event loop; callbacks that raise anywhere; retries; shutdown that fails half way |
| Failure policy (`execution/failure_handling`) | two counters | `make_decision` | off-by-one at the limits; which errors are retryable |
| Scaling policies (`execution/scaling_policy`) | last monitor and request times, cached allocation | decision for a running and for a non-running group; resource requests | stale allocation; Noop decisions that spin |
| Worker group (`execution/worker_group`) | worker actors, placement group, sync actor, ongoing polls | start, poll, replace a replica group, shut down, abort | partial start; late poll answers; leaked placement groups |
| Checkpoint manager (`execution/checkpoint/checkpoint_manager.py`) | sorted results, latest result, pending validations, report index, snapshot on storage | register a report, apply a validation, restore | crash between saving and deleting; top-K deletion that must spare latest and pending; an exception of storage or of the score function in the middle of a call |
| Report path (`execution/context.py`, `checkpoint/sync_actor.py`, `checkpoint/report_handler.py`, `worker_group/thread_runner.py`) | barrier counter, per-worker result queue of length one, report indexes, per-worker buffers | `report()`, upload, barrier, poll, match | barrier reset racing completion; asynchronous uploads finishing out of order; full queue; a worker that dies between two reports |
| Validation manager (`execution/checkpoint/validation_manager.py`) | queue, in-flight tasks, finished results | schedule, poll, drain at shutdown, abort | tasks that never end; requeue after restore; a save that fails before a validation is queued |
| Placement group cleaner, preemption watcher, callbacks, state manager | their own actor or thread | monitor loops | controller death while a group is up; a registration that raises, a stop that arrives late |

The controller calls the policies and the worker group directly. Checkpoint,
report and validation managers are *callbacks*: the worker group calls them
after every poll, the controller at its transitions. Workers talk to each other
only through the synchronization actor and to the controller only by being
polled.


What makes each part correct:

* **Controller and failure policy**: a worker group is there whenever it is
  used; retries stop exactly at the configured limits; the outcome of a run and
  its cause are never revised; no two groups share a run attempt id; shutdown
  and `abort()` end. `TrainingRun` states this as a specification of its own.
* **Checkpoint manager**: whatever the process was doing when it crashed, the
  snapshot on storage can be restored and names only directories that exist
  (with two exceptions: the one `checkpoints_torn` shows, and a latest checkpoint
  that could not be scored, see *Observations*);
  the latest and the pending checkpoints are never deleted; `num_to_keep` is
  kept; no better checkpoint is dropped for a worse one.
* **Synchronization actor**: its counter is exactly the calls inside; whoever
  returns was in one barrier with one call of every rank and got rank 0's data;
  nobody waits in a barrier that has completed; a reset ends.
* **Report path**: reports that are merged belong to the same `report()` call
  of all workers; every report is delivered once, in order; nothing blocks for
  ever.
* **Validation manager**: no more validations in flight than slots; every validation is
  finished, timed out or requeued exactly once; draining ends.
* **Worker group and cleaner**: a start that fails releases what it took; a late
  poll answer is attributed to the right worker; a placement group does not
  outlive its controller.

`PROJECT.json` lists every component, including those that are not modelled,
and every hazard of the code that the properties are aimed at.

## Modules

| Module | Models | Used by |
|---|---|---|
| `TrainController` | `controller.py`, `state.py`, `failure_handling/default.py` | `ControllerRefinement` |
| `TrainingRun` | nothing of the code: what a run promises its driver | instantiated by `ControllerRefinement` |
| `ControllerRefinement` | the refinement mapping from `TrainController` to `TrainingRun` | `MCTrainController` (sets of failing hooks), `TrainControllerProofs` |
| `CheckpointManager` | `checkpoint/checkpoint_manager.py`, deletion in `storage.py` | `MCCheckpointManager` (symmetry), `CheckpointManagerProofs` |
| `ResultList` | the sorted list of results: `train/_internal/checkpoint_manager.py` and its use in v2 | run directly, `ResultListProofs` |
| `SyncActor` | `checkpoint/sync_actor.py`, `wait_with_logging` of `util.py`, the calls in `context.py` and `worker_group.py` | run directly, `SyncActorProofs` |
| `ReportPath` | `context.py`, `worker.py`, `thread_runner.py`, `report_handler.py`, polls and replacement in `worker_group.py` | run directly, `ReportPathProofs` |
| `ValidationManager` | `checkpoint/validation_manager.py` | run directly, `ValidationManagerProofs` |
| `Filters` | nothing of the code: the elements of a sequence that are in a set | `ResultList`, `ValidationManager`, `FilterProofs` |
| `WorkerGroup` | start, shutdown and abort in `worker_group.py` and `state.py`, `placement_group_cleaner.py`, `placement_group_callback.py`, the watcher's life in `preemption_callback.py` | run directly, `WorkerGroupProofs` |

### TrainController

`state`, `wg`, `failures` are the attributes `_state`, `_worker_group` and the
policy's two counters. `task` is the point where the coroutine `run()` is:
`loop` (about to start an iteration), `sleeping` (in the sleep before a poll),
`draining` (in the awaited `before_controller_shutdown`), `returned`, `exited`.
A step of `run()` is the code between two suspension points, because nothing
else can run on the actor's event loop in between; `abort()` steps are enabled
only at suspension points. `exit_actor()` only requests the exit (`exiting`),
and the process may run on for a while. Exceptions are named by their origin,
and every callback hook in `FailingHooks` may raise at each of its calls;
`SetState` and `Fail` are `_set_state` and the decision of the failure policy.
What a scaling policy decides is a choice over `Sizes`, constrained as the two
policies are (the fixed one never resizes, the elastic one may return Noop).

### TrainingRun and its refinement

`TrainingRun` is what the driver may rely on, in four variables and six actions:
a run works, with or without workers; it closes, for one reason; it releases its
workers; it concludes with one outcome that stands, never with success while it
holds workers, and an error is never replaced by another; or an abort interrupts
it, and then it reports nothing. Closing and vanishing do not take for ever.
`ControllerRefinement` maps the controller to it. The stage is the type of
`_state`, the outcome and its cause come from the error that the state carries,
and workers are held while the group is active. While the actor is exiting its
state still changes (`abort()` sets ABORTED, and the shutdown it interrupted may
replace that), but no caller of `run()` can see it, so the mapping hides it. The
controller does not keep the promise if `after_worker_group_shutdown` raises: the
shutdown then repeats for ever (see *Observations*), so that hook is left out of
the run.

### CheckpointManager and ResultList

A call of the manager is split at its effects on storage: memory is updated
(`RegisterCheckpoint`, `UpdateCheckpoints`), the snapshot is opened
(`OpenSnapshot`, only where storage rewrites files in place) and written
(`WriteState`), then the doomed directories are deleted one by one
(`DeleteCheckpoint`). `Crash` may happen between any two; `Restart` loads
the snapshot with every check of `_load_state`.

Two things raise inside a call, and end the run. Storage does at any of its
operations (`StorageRaises`; an exception of the deletion itself is logged by
`delete_fs_path`, one of its question what is at the path is not). And
`_get_checkpoint_score` does for a score attribute that is not a number
(`RegisterRaises`, `UpdateRaises`): a new checkpoint is then the latest already but
not a result, a validated one has been taken out of the list and is not put back
(`unscored`). Only an insertion into a list that is not empty computes scores, so
the first result may have any metrics. The shutdown that follows still drains the
validations, and so may still update and save (`UpdateCheckpoints` with `closing`).

Here the sorted list is the set of its members with their score and report index.
`ResultList` keeps the actual list, with its linear insertion, the order factor,
missing, NaN and non-numerical metrics and the slice `[:-num_to_keep]`, and shows
that the list is what `CheckpointManager` takes it for.

### SyncActor

The actor is one asyncio event loop whose methods hold the lock of one
condition. Ready tasks and waiters for the lock are served first in, first out,
so the loop is a `queue` of turns and `waiting` the calls on the condition.
`Left` is `_clear_states`, `Counted` the entry of the context manager, and the
actions are the ways a turn can go. `WarningFires` and `TimeoutFires` are the
two nested `asyncio.wait_for`: they cancel a waiting call, or one that was
notified and has not got the lock back. Workers call (`Report`), fail (`Die`)
and are replaced (`RequestReset`, `Replace`). The new worker starts after the
turns that are due at the end of `reset()`: a process start takes seconds,
turns take microseconds. This is a timing assumption, not a guard in the code.

### ReportPath

Every worker process has its training thread (`thread`), one upload thread
(`pool`, because `MAX_CHECKPOINT_UPLOAD_THREADS` is 1), the monitor thread
(`outcome` is the first item of the exception queue, `monitored` that it was
taken) and the actor's main thread, which answers polls (`poll`). A report is
named by the barrier round that named its checkpoint directory; the barrier
itself is the ideal one that `SyncActor`'s `Agreement` describes. An upload ends
in the step that puts its report, or fails; uploads run side by side with all
else because that step may be taken at any time. `poll_status` is two steps:
the reads of the queue and of the error, then the question whether the thread
runs. The controller's side is one action per outcome of a poll round: the
handler refuses, the run goes on, finishes, is given up, restarts the group or
starts to replace some replica groups. A restarted group starts from the
manager's report index, and the names of its reports do, too. A reader of the
reported checkpoints waits in one of the two modes of `CheckpointConsistencyMode`:
COMMITTED for the manager's report index, VALIDATED until no validation is pending
as well (`validating`). Which validations a report brings is left open, and
`Settle` ends them; that they do end is `PendingIsResolved` of `ValidationManager`.
The replacement
follows `_replace_replica_group_impl` step by step. Which backend a run has is
decided when the first failure makes a difference (`backend`), so that one run
covers both. Most properties are about runs without a replacement: after one,
the numbering of a single worker starts anew and they really do not hold.

### ValidationManager

A checkpoint stands for its report, its validation task and the entries of both
in the manager's four collections; `status` is what the checkpoint manager keeps
of it in memory and `stored` what its last successful save wrote. A report that is
registered and saved is queued in the same step (`Report`). If its save fails, the
checkpoint is pending and the `ValidationManager`, the next report callback, never
hears of it (`refused`); if its insertion raises, it is no result at all
(`dropped`). Either way the exception shuts the run down (`ReportRaises`, phase
`closing`), and what the hooks of the shutdown save later includes it. The same
two errors can end a poll or the final batch (`UpdateRaises`). `Poll` and `KickOff` are functions of the state before them,
because two hooks use them in different orders: `after_controller_state_update`
polls and launches, the loop of `before_controller_shutdown` launches only when
nothing is in flight, and ends with a batch. Tasks return, raise, die with
their process or are cancelled; the clock of a task goes on until a poll takes
it out of the map. `Abort` only asks the tasks to stop: the drain loop may go on
until the process ends. `Relaunch` is a new run on the same storage path.

Here and in `ResultList`, `Filter` of `Filters` stands for the loops that take
entries out of a collection. It is `SelectSeq` written as a recursive function:
TLAPS has no definition of `SelectSeq`, and cannot expand it.

### WorkerGroup

Every start of a group is numbered and has a placement group of its own. The
steps of `_start_impl` are actions between which the controller process may die:
the placement group is pending, ready, the state is built, the cleaner's callback
has called `register_placement_group` and waits for the answer, the preemption
watcher is up, training is launched. Each can fail as in the code: before the
state is built `_start` cleans up, after it nobody does (`orphans`). The cleaner is
its queue, the placement group its monitor thread holds and the call that may
still be on its way. `after_worker_group_start` swallows every exception of that
call, of a cleaner that is gone as of one that is out of reach for a moment
(`RegisterFails`): the start goes on, the call may be lost or run later, and the
group counts as `unregistered`. A `stop()` that the controller no longer waits for
still runs on the cleaner (`stopSent`, `LateStop`). Polls are in `ReportPath`, the control loop around the group
in `TrainController`.

## Runs

| Run | Shows |
|---|---|
| `controller` | all interleavings of the loop with `abort()`, failed starts, worker errors, resizes and failing hooks: `GroupIsUsable`, `RetryBudget`, `FinishedReleasesWorkers`, `ResultIsFinal`, `RootCausePreserved`, `FreshAttempt`, and the refinement `ImplementsTrainingRun` |
| `controller_abort_starved` (violation) | with unlimited startup retries `abort()` may never be carried out |
| `checkpoints` | `Restorable`, `ResultsStored`, `OneStatus`, `IndexIsAhead`, `Durable`, `RetentionBound`, `NoOrphans`, `BestSurvive` through crashes, storage errors and metrics that cannot be scored |
| `checkpoints_torn` (violation) | a crash inside the rewrite of the snapshot makes the run unrestorable |
| `result_list` | the slice is the worst part of the list, the best values are kept |
| `sync_actor` | `CounterIsInside`, `Agreement`, `NoneStranded`, `ResetEnds` |
| `report_path` | `NothingLost`, `ReportsBelongTogether`, `HandlerKeepsUp`, `FinishedDelivered`, `RunEnds` through failing uploads, dying workers, hanging polls, waiting readers and restarts |
| `report_path_error_lost` (violation) | a poll can find a worker finished whose training function has just raised |
| `report_path_stale` (violation) | a replacement can leave a report of the old generation that is paired with a new one |
| `validation` | `NoneForgotten`, `DrainedValidates`, `PendingIsResolved`, `ShutdownEnds` through timeouts, dying tasks, failing saves, aborts and a second run |
| `worker_group` | `OneGroupHeld`, `CleanerKnowsGroup`, `OneWatcher`, `ActiveIsRemoved` through failing starts, failing registrations, late stops and deaths of the controller and the cleaner |
| `worker_group_cleaner` (violation) | a controller that dies before it has registered its placement group leaves it reserved |

Each violation is listed under `findings` with the line of the repository that
says otherwise. Every property of a passing run has a mutant: a defined variant
of one mapped definition, as a plausible bug would change it, under which TLC
finds the property violated.

### Observations

The models show more disagreements between code and comments than the runs
above keep. They can be reproduced by stating the property:

* `abort()` that runs while `_shutdown` awaits its hooks sets ABORTED, and the
  suspended shutdown then replaces that terminal state before the process exits.
* If `after_worker_group_shutdown` raises, the inactive group stays referenced
  and its truth value raises in every iteration of the shutdown, which is then
  repeated for ever (add the hook to `FailingHooks`: `ImplementsTrainingRun`
  fails).
* Under `checkpoint_score_order="min"` a result without the score attribute is
  scored `+inf` and ranks best (`Score` in `ResultList`).
* A reset that runs between the completion of a barrier and the turns of the
  calls it notified makes these skip a report that the last member counts: the
  report indexes of the survivors diverge.
* A warning interval that ends after the notification of a call and before its
  turn swallows the notification; the call stays in a barrier that has completed.
* With a fixed group and finite limits `AbortServed` holds.
* The race of `report_path_error_lost` also loses the last report of a worker
  that reports and returns between the two reads; `FinishedDelivered` therefore
  allows for one.
* A validation whose process dies (neither a task error nor a cancellation) ends
  the whole run and leaves its checkpoint pending, until a relaunch queues it
  again (`LeftPending` in `NoneForgotten` and `DrainedValidates`).
* A save that fails in `register_checkpoint` leaves a pending checkpoint that is
  never queued; the shutdown that follows drains without it, returns normally and
  may persist it as pending (`LeftPending`, too).
* A score that is not a number raises after `register_checkpoint` has replaced the
  latest checkpoint and before it has inserted the result. If the shutdown that
  follows saves the state, which it does in a run with validations
  (`validation_manager.py:265`), the snapshot's latest checkpoint is not among its
  results and the next launch stops with a `KeyError` (`CheckpointTorn.cfg` with
  `AtomicWrites = TRUE` still violates `NeverCorrupted`). `Restorable` and
  `ResultsStored` except this checkpoint, and `AtomicNeverCorrupted` shows that
  nothing else leads there.
* A validated result whose new metrics cannot be scored is lost as a result,
  although its directory stays on storage (`unscored` in `NoOrphans`).
* A group whose registration raised while its cleaner lives is active and unknown
  to that cleaner, and a `stop()` that was given up makes the cleaner leave
  although the controller still holds a group (`unregistered` and `stopSent` in
  `CleanerKnowsGroup` and `ActiveIsRemoved`).
* A start that raises after its state was built leaves its workers and its
  placement group behind (`orphans` in `OneGroupHeld`).

Where such a thing happens in the code no property can exclude it. The hazard is
then listed in `PROJECT.json` with a note instead of properties, or with those that
bound the damage.

### Bounds

* Controller: limits of 1 for both kinds of failure reach "below", "at" and
  "beyond" the limit; two sizes allow a resize in both directions. No other
  bound is needed: the counters stop at the limit, so the state space is finite.
* Checkpoints: three checkpoints and `num_to_keep = 1` give the smallest
  case in which a result is dropped while another is latest and a third is
  pending; two scores allow equal and different ones; `MaxReports = 4` leaves
  room for a report without a checkpoint; `MaxCrashes = 1` is enough for one
  restore at any point. `Checkpoints` is a symmetric set: names are only
  compared.
* Result list: five reports, `num_to_keep = 2`, two metric values plus missing,
  NaN and text, both orders and no score attribute.
* Barrier: three workers (a last one, a notified one and one that has not been
  served), two reports each, so that a call can meet a later barrier; one
  failure, one late warning, one expired call. With two failures the same
  properties hold too (4.4 million states, about three minutes). Warnings while
  the loop has nothing to do change nothing and are not counted: `WarningFires`
  is restricted to those that meet a turn that is due. A warning that meets one
  can lose a wake-up (see *Observations*), so `Agreement`, `NoneStranded` and
  `ResetEnds` speak of behaviours without one; `CounterIsInside` holds with
  them as well.

* Report path: two workers are the smallest group whose reports have to be
  matched; two reports make one wait behind another, in the upload pool, the
  queue and the buffers; one tolerated failure, one fault and one poll round
  that times out (none in `report_path_stale`), which may count as the failure
  of a worker, too, let a second failure meet the handling of the first. Readers
  use the default mode VALIDATED, which waits for more than COMMITTED does; the
  violations allow both. About 740,000 states, two minutes.
* Validations: three checkpoints, one or two slots, so that one waits in the
  queue, one is in flight and one has finished; two launches for the requeueing.
* Worker group: three starts, so that a start that fails after its state was
  built can precede and follow a group that runs (two in the violation).

### Fairness

* Controller: weak fairness of `run()`'s steps and of the process exit (the
  event loop and the core worker's exit check keep running). Strong fairness of
  `abort()`: it is enabled again and again while `run()` sleeps between polls,
  and asyncio takes a ready coroutine before the timer of the next sleep fires.
* Checkpoints and the result list: only safety, no fairness.
* Barrier: weak fairness of the event loop's turns; no worker has to report, die
  or be replaced, and no timer has to fire.

* Report path: threads and actors that can run do run, and uploads end (weak
  fairness), and pending validations are settled, as `PendingIsResolved` shows for
  their manager. The training function goes on to its next report or its end: strong
  fairness, because it may read the reported checkpoints in between, but not for
  ever. Failures never have to happen, nor do polls have to hang.
* Validations: the control loop and the drain loop go on while their process
  lives, time passes, and a validation ends unless it is one of `Endless`, which
  only a timeout ends. `Endless` is assumed to have timeouts: without one such a
  task keeps its slot, and the shutdown waiting for it, for ever.
* Worker group: only the monitor thread of a living cleaner is fair.

Deadlock is checked for the controller and the report path, whose final states
have an explicit stuttering step. The other systems really may stop: all reports were made, or
workers wait for one that never calls.

## Proofs

Eight modules prove, for every value of the constants, each invariant that the
runs check, and the action properties of the controller and of the checkpoint
manager.

`TrainControllerProofs` proves, for all limits, sizes, policies and sets of
failing hooks: `TypeOK`, `GroupIsUsable`, `RetryBudget`,
`FinishedReleasesWorkers`, `ResultIsFinal`, `FreshAttempt`, and, if
`after_worker_group_shutdown` does not raise, `RootCausePreserved`. The
assumption is `ControllerAssumption`. The properties of a state are not
inductive: they need which states each suspension point of `run()` can be in
(`TaskMatchesState`), which group comes with each state (`GroupMatchesState`),
and what a suspended `_shutdown()` remembers while `abort()` runs
(`DrainedGroup`, `ShutdownBudget`). `FreshAttempt` adds that a group is only
scheduled under an unused id, the root cause that an inactive group exists only
once the actor is exiting. One lemma per action shows that it keeps the
invariant; the lemmas on `SetState` and `Fail` are shared by all of them.

The same module proves `Refinement`: under the same hypothesis every behaviour of
the controller is one of `Run!Spec`, the safety part of `TrainingRun`. The
mapping needs three more facts than the invariant has: an inactive group and the
state ABORTED exist only once the actor is exiting (`InactiveExits`,
`AbortedExits`), so that what the mapping hides is hidden for good, and a
shutdown leads to FINISHED or ERRORED (`ShutdownHasTarget`). A step then is one
of three kinds: both states visible to the driver, the one that makes the actor
exit, or one behind the exit.

`CheckpointManagerProofs` proves, for any finite set of checkpoints, any scores
and `num_to_keep`, any number of crashes and both kinds of storage: `TypeOK`,
`Restorable`, `ResultsStored`, `OneStatus`, `IndexIsAhead`, `Durable`,
`RetentionBound`, `NoOrphans`, `BestSurvive`, and that with atomic writes
`NeverCorrupted` holds unless the latest checkpoint of the snapshot is one whose
insertion raised (`LatestUnscored`): this and the truncation in place are the only
ways to a snapshot that does not load. The assumption is `CheckpointAssumption`. None of the
properties is inductive. The invariant says that the book-keeping is consistent
in the live memory and in the saved one (`Consistent`), that both name only
stored directories (`Backed`), and how far the snapshot is behind in each phase
(`Synchronised`): while directories are being deleted both copies are equal, so a
deletion never touches what a restart would look for. Retention is about ranks in
a finite total order: at most `num_to_keep` results have fewer than `num_to_keep`
better ones (look at the worst of them), and whoever is dropped has
`num_to_keep` better ones that stay (look at the best that is dropped). The bound
holds of the snapshot as well (`Bounded`), because a restart brings it back.

`ResultListProofs` proves `SliceIsWorst` and `KeepsBestValues` for any metrics,
both orders, any `num_to_keep` and any number of reports: `CheckpointManager` may
take the list for the set of its members. The assumption is
`ResultListAssumption`: metrics are numbers between the infinities, missing and
NaN are not among them, text is none of these. The invariant is that the list is strictly sorted by score and
report index, no index twice (`Ranked`). An insertion keeps it because the order
is total and the loop of `_insert_into_sorted_list` stops at the first better
result; a removal or a drop keeps it because it keeps the order of what stays. An
insertion that would compare a result without a score raises before it inserts
anything (`RaisesKeeps`), so it disturbs no order.
In a sorted list the better ones are those that follow, so they are counted by
their positions.

`SyncActorProofs` proves `TypeOK`, `CounterIsInside`, `Agreement` and
`NoneStranded` for any world size and any number of calls, deaths, warnings and
expired calls. The assumption is `SyncAssumption`. `Orderly` holds always: a call has
one turn, the counter is the number of calls inside and below the world size.
`Calm` holds until a warning interval ends while the call's turn is due, as the
properties themselves do, and carries the argument: the event loop is first in,
first out, so the members of a complete barrier leave before any new call starts
(`GroupLeavesFirst`); a reset stands behind the turns of the worker it replaces
(`ResetReplaces`); so every rank has at most one call inside, and `world_size`
calls inside are one of each rank. `ResetReplaces` uses the timing assumption of
`Replace` named above.

`ReportPathProofs` proves `TypeOK`, `NothingLost`, `ReportsBelongTogether`,
`HandlerKeepsUp` and `FinishedDelivered` for any finite group of workers and any
number of reports, faults, failures and hanging polls. The assumption is
`ReportAssumption`. That nothing is lost is not inductive: a put, a poll and a
merge each move a report, and whether the next one fits depends on where all the
earlier ones are. The invariant says for every worker which numbers are in the
upload pool, the queue, the poll and the buffer (`Named`, `Arrived`, `Sent`,
`Uploaded`), how far its barrier is (`Synced`) and what holds once its function
has returned (`Returned`). A step of one worker leaves the others alone
(`LocalStep`), so only that worker is looked at. As in the model, these are
statements about runs without a replacement, apart from `TypeOK` and
`HandlerKeepsUp`.

`ValidationManagerProofs` proves `TypeOK`, `NoneForgotten` and `DrainedValidates`
for any finite set of checkpoints, any limits, timeouts and number of launches.
The assumption is `ValidationAssumption`. The invariant says that a checkpoint is
in one of the three collections (`OnePlace`), that whatever they hold is pending,
whether or not the run was aborted (`HeldIsPending`), and that what is pending is
held, or was left aside by an exception after which the run only shuts down
(`PendingIsHeld`). A verdict settles a checkpoint only if its task has ended
and was not cancelled, hence `EndsKnown` and `CancelsKnown`: a task is cancelled
by a time-out, which is recognised first, or by an abort. A turn of either loop
is reduced to what it does to the sets of elements (`Turn`), once for all four
actions that take one.

`WorkerGroupProofs` proves, for any number of starts and with every death of the
controller and of its cleaner: `TypeOK`, `OneGroupHeld`, `CleanerKnowsGroup` and
`OneWatcher`. The assumption is `StartsAssumption`. The invariant adds that a
start begins without a group (`StartInProgress`), what the cleaner was told at
each point of a start, including the registration call that is under way and
the late arrival of one that raised (`CleanerInformed`), and that the watcher of the start in progress is the only one
(`WatcherOfStart`).

`FilterProofs` proves what `Filter` selects, for every sequence and set
(`FilterSelects`): the elements in the set, in their order. The library's
induction principles take a predicate as a parameter, which the provers cannot
instantiate; the induction is done through `LeastNumber` instead, a set of
numbers that is not empty has a least one, applied to the positions at which the
claim fails. The recursive function behind `Filter` is shown to exist in the same
way (`FilterExists`).

Only model-checked: liveness (`AbortServed`, `ResetEnds`, `RunEnds`,
`PendingIsResolved`, `ShutdownEnds`, `ActiveIsRemoved`) and the fairness part of
the refinement (`ImplementsTrainingRun` is `Run!FairSpec`), which are out of the
prover's reach. The violations are counterexamples and have nothing to prove.

## Plan

1. Done: the controller and the abstract run it implements, the checkpoint
   manager with its list, the barrier, the report path, the validations, the
   worker group with its cleaner, and proofs of all the invariants that the runs
   check.
2. Proofs: what a step may never do in the report path and the validations (a
   settled status is final, deliveries only grow), as action properties from
   the invariants that are there; what remains of `Agreement` with warnings.
3. The elastic policy with its cached allocation, and the polling of the
   preemption watcher.

## Not modelled

Ray's own core (scheduling, object store, actor lifecycle), Serve, Tune, Data,
RLlib, the autoscaler, the dashboard and Train v1 are vendored code below or
beside the training engine; the models use what the engine relies on (methods of
an asyncio actor interleave only at suspension points, calls to a dead actor
raise). The data pipeline of `tfm_repo/` is numeric and stateless. Callbacks that
only observe (metrics, state export) are represented by their one influence on
the controller, an exception at any hook. The elastic policy's resource arithmetic is left
out because the controller model allows any decision at any time; the assignment
of ranks to nodes, TPU slices and the notices of the preemption watcher change
none of the state the properties are about. In the barrier, the `ValueError` for
callers that disagree on the world size is left out: all workers of a group are
given the same one. `get_all_reported_checkpoints` may have a timeout, after which
it returns what there is; the model has the default, which waits.

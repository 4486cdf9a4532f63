----------------------------- MODULE ReportPath ------------------------------
(***************************************************************************)
(* How a report travels from ray.train.report() on every worker to the     *)
(* checkpoint manager: TrainContext.report and _wait_then_report           *)
(* (context.py), the training thread and its monitor (thread_runner.py),   *)
(* poll_status (worker.py, worker_group.py), ReportCallbackHandler         *)
(* (report_handler.py) and, for TorchFT, the replacement of a failing      *)
(* replica group (worker_group.py).                                        *)
(*                                                                         *)
(* A worker process has four threads: the training thread, one upload      *)
(* thread, the monitor thread and the actor's main thread, which answers   *)
(* polls.  The controller merges one report of every worker into one and   *)
(* hands it to the checkpoint manager, whose report index is `delivered`.  *)
(*                                                                         *)
(* A report is named by its checkpoint directory, which the barrier gives  *)
(* to all workers: the number of the barrier round.  The barrier is the    *)
(* one SyncActor's Agreement describes: all calls of a round go on         *)
(* together, with the same name.                                           *)
(***************************************************************************)
EXTENDS Integers, Sequences, FiniteSets

CONSTANTS
  Workers,       \* the ranks of the worker group
  MaxReports,    \* bound: the training function reports this many times
  MaxFailures,   \* FailureConfig.max_failures
  MaxFaults,     \* bound: failures of worker code, uploads and processes
  MaxHangs,      \* bound: rounds in which some poll misses the timeout
  Modes,         \* the CheckpointConsistencyModes the training function uses
  Backends       \* "plain", or "replicas" if Backend.has_replica_groups

ASSUME ReportAssumption ==
  /\ Workers # {} /\ IsFiniteSet(Workers)
  /\ MaxReports \in Nat \ {0}
  /\ MaxFailures \in Nat
  /\ MaxFaults \in Nat
  /\ MaxHangs \in Nat
  /\ Modes \subseteq {"COMMITTED", "VALIDATED"}
  /\ Backends \subseteq {"plain", "replicas"}

VARIABLES
  (* the worker processes *)
  thread,              \* where the training thread is
  reportCallIndex,     \* TrainContext.report_call_index
  currentReportIndex,  \* TrainContext.current_report_index
  pool,                \* jobs of checkpoint_upload_threadpool, the first running
  resultQueue,         \* ExecutionContext.result_queue, of length one
  outcome,             \* the first item put into the exception queue
  monitored,           \* the monitor thread has taken that item
  poll,                \* the poll_status call of the current round
  (* the synchronization actor *)
  barrier,             \* the workers whose call is counted
  round,               \* the name the last complete barrier gave out
  faults,              \* failures of worker code, uploads and processes so far
  (* the controller *)
  buffers,             \* ReportCallbackHandler._training_report_queues
  delivered,           \* CheckpointManager._current_report_index
  validating,          \* CheckpointManager._pending_training_results is not empty
  control,             \* what the controller is doing
  failures,            \* worker failures so far
  hangs,               \* rounds so far in which some poll missed the timeout
  failing,             \* the replica groups still to be replaced
  backend              \* the kind of backend, once a failure has shown it

workerVars == <<thread, reportCallIndex, currentReportIndex, pool,
                resultQueue, outcome, monitored>>
syncVars == <<barrier, round, faults>>
controlVars == <<buffers, delivered, validating, control, failures, hangs,
                 failing, backend>>
vars == <<workerVars, poll, syncVars, controlVars>>

NoReport == 0

(* A poll: not submitted yet, about to make one of its three reads, answered. *)
PollSteps == {"idle", "queue", "running", "done"}

Poll(step, report, error, running) ==
  [step |-> step, report |-> report, error |-> error, running |-> running]

NewPoll == Poll("idle", NoReport, FALSE, TRUE)

Over == {"finished", "failed", "inconsistent"}

(* A thread that reads the checkpoints is at the mode it reads them in. *)
Threads == {"training", "syncing", "uploading", "COMMITTED", "VALIDATED",
            "joining", "ended", "dead"}

(* The worker's threads run until the controller ends the run. *)
Runs(w) == thread[w] # "dead" /\ control \notin Over

At(w, place) == Runs(w) /\ thread[w] = place

-----------------------------------------------------------------------------
(* A worker group starts: init_train_context passes the manager's index.   *)

Init ==
  /\ thread = [w \in Workers |-> "training"]
  /\ reportCallIndex = [w \in Workers |-> 0]
  /\ currentReportIndex = [w \in Workers |-> 0]
  /\ pool = [w \in Workers |-> <<>>]
  /\ resultQueue = [w \in Workers |-> <<>>]
  /\ outcome = [w \in Workers |-> "none"]
  /\ monitored = [w \in Workers |-> FALSE]
  /\ poll = [w \in Workers |-> NewPoll]
  /\ barrier = {}
  /\ round = 0
  /\ faults = 0
  /\ buffers = [w \in Workers |-> <<>>]
  /\ delivered = 0
  /\ validating = FALSE
  /\ control = "polling"
  /\ failures = 0
  /\ hangs = 0
  /\ failing = {}
  /\ backend = "open"

-----------------------------------------------------------------------------
(* The training thread *)

Goto(w, place) == thread' = [thread EXCEPT ![w] = place]

(* Only the first item of the exception queue is ever taken. *)
PutException(w, item) ==
  outcome' = [outcome EXCEPT ![w] = IF outcome[w] = "none" THEN item ELSE @]

(* report() takes its index and enters the barrier. *)
Report(w) ==
  /\ At(w, "training")
  /\ reportCallIndex[w] < MaxReports
  /\ reportCallIndex' = [reportCallIndex EXCEPT ![w] = @ + 1]
  /\ barrier' = barrier \cup {w}
  /\ Goto(w, "syncing")
  /\ UNCHANGED <<currentReportIndex, pool, resultQueue, outcome, monitored,
                 poll, round, faults, controlVars>>

(* The barrier is complete; a dead worker's call counts like any other. *)
CompleteBarrier ==
  /\ barrier = Workers
  /\ control \notin Over
  /\ barrier' = {}
  /\ round' = round + 1
  /\ thread' = [w \in Workers |-> IF thread[w] = "syncing" THEN "uploading" ELSE thread[w]]
  /\ UNCHANGED <<reportCallIndex, currentReportIndex, pool, resultQueue,
                 outcome, monitored, poll, faults, controlVars>>

(* checkpoint_upload_mode ASYNC: submit and return. *)
SubmitUpload(w) ==
  /\ At(w, "uploading")
  /\ pool' = [pool EXCEPT ![w] =
                Append(@, [index |-> reportCallIndex[w], report |-> round])]
  /\ Goto(w, "training")
  /\ UNCHANGED <<reportCallIndex, currentReportIndex, resultQueue, outcome,
                 monitored, poll, syncVars, controlVars>>

Fault == faults < MaxFaults /\ faults' = faults + 1

(* The training function raises, or a SYNC upload does through it. *)
TrainFnRaises(w) ==
  /\ Fault
  /\ At(w, "training") \/ At(w, "uploading")
  /\ PutException(w, "raised")
  /\ Goto(w, "joining")
  /\ UNCHANGED <<reportCallIndex, currentReportIndex, pool, resultQueue,
                 monitored, poll, barrier, round, controlVars>>

(* Mutant: a report does not wait for the earlier ones. *)
IsTurnAlways(w, index) == resultQueue[w] = <<>>

(* _wait_then_report puts the report when its index is next and there is room. *)
IsTurn(w, index) == currentReportIndex[w] = index - 1 /\ resultQueue[w] = <<>>

Put(w, report) ==
  /\ resultQueue' = [resultQueue EXCEPT ![w] = <<report>>]
  /\ currentReportIndex' = [currentReportIndex EXCEPT ![w] = @ + 1]

WaitThenReport(w) ==
  /\ At(w, "uploading")
  /\ IsTurn(w, reportCallIndex[w])
  /\ Put(w, round)
  /\ Goto(w, "training")
  /\ UNCHANGED <<reportCallIndex, pool, outcome, monitored, poll, syncVars,
                 controlVars>>

(* get_all_reported_checkpoints asks the manager and waits. *)
ReadCheckpoints(w) ==
  /\ At(w, "training")
  /\ \E mode \in Modes : Goto(w, mode)
  /\ UNCHANGED <<reportCallIndex, currentReportIndex, pool, resultQueue,
                 outcome, monitored, poll, syncVars, controlVars>>

(* Its predicate compares the manager's report index with the caller's,    *)
(* and for VALIDATED waits for the validations that are pending as well.   *)
ReadReturns(w) ==
  /\ \E mode \in Modes : At(w, mode) /\ (mode = "VALIDATED" => ~validating)
  /\ delivered = reportCallIndex[w]
  /\ Goto(w, "training")
  /\ UNCHANGED <<reportCallIndex, currentReportIndex, pool, resultQueue,
                 outcome, monitored, poll, syncVars, controlVars>>

(* Mutant: the thread does not wait for the pool. *)
IsFlushedAlways(w) == TRUE

(* ThreadPoolExecutor.shutdown() waits for every job. *)
IsFlushed(w) == pool[w] = <<>>

(* The training function has returned and the pool is flushed. *)
TrainFnReturns(w) ==
  /\ At(w, "training")
  /\ reportCallIndex[w] = MaxReports
  /\ IsFlushed(w)
  /\ PutException(w, "returned")
  /\ Goto(w, "joining")
  /\ UNCHANGED <<reportCallIndex, currentReportIndex, pool, resultQueue,
                 monitored, poll, syncVars, controlVars>>

(* The training thread joins the monitor thread and ends. *)
EndThread(w) ==
  /\ At(w, "joining")
  /\ monitored[w]
  /\ Goto(w, "ended")
  /\ UNCHANGED <<reportCallIndex, currentReportIndex, pool, resultQueue,
                 outcome, monitored, poll, syncVars, controlVars>>

-----------------------------------------------------------------------------
(* The upload thread, the monitor thread and the process *)

Busy(w) == Runs(w) /\ pool[w] # <<>>

PoolReports(w) ==
  /\ Busy(w)
  /\ IsTurn(w, Head(pool[w]).index)
  /\ Put(w, Head(pool[w]).report)
  /\ pool' = [pool EXCEPT ![w] = Tail(@)]
  /\ UNCHANGED <<thread, reportCallIndex, outcome, monitored, poll, syncVars,
                 controlVars>>

(* Mutant: the failure of an upload in the background is only logged. *)
PoolFailsSilently(w) ==
  /\ Fault
  /\ Busy(w)
  /\ pool' = [pool EXCEPT ![w] = Tail(@)]
  /\ UNCHANGED <<thread, reportCallIndex, currentReportIndex, resultQueue,
                 outcome, monitored, poll, barrier, round, controlVars>>

(* A failed upload is raised through the exception queue; its turn never comes. *)
PoolFails(w) ==
  /\ Fault
  /\ Busy(w)
  /\ PutException(w, "raised")
  /\ pool' = [pool EXCEPT ![w] = Tail(@)]
  /\ UNCHANGED <<thread, reportCallIndex, currentReportIndex, resultQueue,
                 monitored, poll, barrier, round, controlVars>>

(* _monitor_target: get() one item; an exception becomes the error. *)
Monitor(w) ==
  /\ Runs(w)
  /\ outcome[w] # "none"
  /\ ~monitored[w]
  /\ monitored' = [monitored EXCEPT ![w] = TRUE]
  /\ UNCHANGED <<thread, reportCallIndex, currentReportIndex, pool,
                 resultQueue, outcome, poll, syncVars, controlVars>>

(* ThreadRunner.get_error *)
HasError(w) == outcome[w] = "raised" /\ monitored[w]

(* A process is gone with everything in it, or a new one starts at an index. *)
Process(w, place, index) ==
  /\ Goto(w, place)
  /\ reportCallIndex' = [reportCallIndex EXCEPT ![w] = index]
  /\ currentReportIndex' = [currentReportIndex EXCEPT ![w] = index]
  /\ pool' = [pool EXCEPT ![w] = <<>>]
  /\ resultQueue' = [resultQueue EXCEPT ![w] = <<>>]
  /\ outcome' = [outcome EXCEPT ![w] = "none"]
  /\ monitored' = [monitored EXCEPT ![w] = FALSE]

(* The process dies; a poll of it fails. *)
Die(w) ==
  /\ Fault
  /\ Runs(w)
  /\ Process(w, "dead", 0)
  /\ poll' = [poll EXCEPT ![w] = IF @.step = "done" THEN @ ELSE NewPoll]
  /\ UNCHANGED <<barrier, round, controlVars>>

-----------------------------------------------------------------------------
(* RayTrainWorker.poll_status on the actor's main thread *)

(***************************************************************************)
(* The reads of the queue and of the error are one step: a failure that    *)
(* falls between them is seen by the next poll, and every failure that is  *)
(* seen restarts the worker.                                               *)
(***************************************************************************)
PollReads(w) ==
  /\ Runs(w)
  /\ poll[w].step = "queue" \/ (poll[w].step = "idle" /\ control = "polling")
  /\ poll' = [poll EXCEPT ![w] =
       Poll("running", IF resultQueue[w] = <<>> THEN NoReport ELSE Head(resultQueue[w]),
            HasError(w), TRUE)]
  /\ resultQueue' = [resultQueue EXCEPT ![w] = <<>>]
  /\ UNCHANGED <<thread, reportCallIndex, currentReportIndex, pool, outcome,
                 monitored, syncVars, controlVars>>

IsRunning(w) == thread[w] # "ended" \/ poll[w].report # NoReport

PollRunning(w) ==
  /\ Runs(w)
  /\ poll[w].step = "running"
  /\ poll' = [poll EXCEPT ![w] =
                Poll("done", poll[w].report, poll[w].error, IsRunning(w))]
  /\ UNCHANGED <<workerVars, syncVars, controlVars>>

(* WorkerHealthCheckFailedError: the poll's answer when the actor is gone. *)
PollDead(w) ==
  /\ thread[w] = "dead"
  /\ poll[w].step # "done"
  /\ control = "polling"
  /\ poll' = [poll EXCEPT ![w] = Poll("done", NoReport, TRUE, FALSE)]
  /\ UNCHANGED <<workerVars, syncVars, controlVars>>

-----------------------------------------------------------------------------
(***************************************************************************)
(* The controller polls.  ray.wait returns when all workers answered or    *)
(* the timeout passed; a hanging poll is kept for the next round and       *)
(* counts as running, or as an error once it has hung for too long.        *)
(***************************************************************************)
Answered == {w \in Workers : poll[w].step = "done"}

PolledErrors(late) == {w \in Answered : poll[w].error} \cup late

(* Step 2 of after_worker_group_poll_status. *)
Filled(w) ==
  IF w \in Answered /\ poll[w].report # NoReport
  THEN Append(buffers[w], poll[w].report) ELSE buffers[w]

AllReported == \A w \in Workers : Filled(w) # <<>>

(* Only the path of the checkpoints is compared. *)
Consistent == \A v, w \in Workers : Head(Filled(v)) = Head(Filled(w))

PollAgain == poll' = [w \in Workers |-> IF w \in Answered THEN NewPoll ELSE poll[w]]

(* Mutant: two reports of every worker are needed before one is merged. *)
MergeLagging ==
  LET ready == \A w \in Workers : Len(Filled(w)) > 1 IN
  /\ buffers' = [w \in Workers |-> IF ready THEN Tail(Filled(w)) ELSE Filled(w)]
  /\ delivered' = IF ready THEN delivered + 1 ELSE delivered
  /\ validating' \in {validating, validating \/ ready}

(* The merged report reaches the manager, and may ask for a validation. *)
Deliver ==
  /\ delivered' = IF AllReported THEN delivered + 1 ELSE delivered
  /\ validating' \in {validating, validating \/ AllReported}

(* Steps 2 to 4: buffer the reports, merge one of each worker and deliver it. *)
Merge ==
  /\ buffers' = [w \in Workers |-> IF AllReported THEN Tail(Filled(w)) ELSE Filled(w)]
  /\ Deliver

(* External: ValidationManager settles what is pending, between two polls. *)
Settle ==
  /\ control = "polling" /\ validating
  /\ validating' = FALSE
  /\ UNCHANGED <<workerVars, poll, syncVars, buffers, delivered, control,
                 failures, hangs, failing, backend>>

(* poll_status of the worker group ends, with all answers or at its timeout. *)
Handling ==
  /\ control = "polling"
  /\ \/ Answered = Workers /\ UNCHANGED hangs
     \/ Answered # Workers /\ hangs < MaxHangs /\ hangs' = hangs + 1

(* The handler refuses to merge: the run fails with its RuntimeError. *)
HandlerRefuses ==
  /\ Handling
  /\ AllReported /\ ~Consistent
  /\ control' = "inconsistent"
  /\ UNCHANGED <<workerVars, poll, syncVars, buffers, delivered, validating,
                 failures, failing, backend>>

Accepting == Handling /\ (AllReported => Consistent)

PollGoesOn ==
  /\ Accepting
  /\ PolledErrors({}) = {}
  /\ \E w \in Workers : w \notin Answered \/ poll[w].running
  /\ Merge
  /\ PollAgain
  /\ UNCHANGED <<workerVars, syncVars, control, failures, failing, backend>>

(* WorkerGroupPollStatus.finished, without errors *)
PollFinishes ==
  /\ Accepting
  /\ PolledErrors({}) = {}
  /\ \A w \in Workers : w \in Answered /\ ~poll[w].running
  /\ Merge
  /\ control' = "finished"
  /\ UNCHANGED <<workerVars, poll, syncVars, failures, failing, backend>>

(* A decision about failing workers: give up, replace some of them, restart. *)
PollFails(bad) ==
  /\ Accepting
  /\ bad # {}
  /\ failures' = failures + 1

GiveUp ==
  /\ \E late \in SUBSET (Workers \ Answered) : PollFails(PolledErrors(late))
  /\ failures = MaxFailures
  /\ control' = "failed"
  /\ Merge
  /\ PollAgain
  /\ UNCHANGED <<workerVars, syncVars, failing, backend>>

(***************************************************************************)
(* A full restart: every process is new, with an empty queue, and starts   *)
(* from the manager's report index; after_worker_group_start makes new     *)
(* buffers.  The new processes are there when the old ones are gone.       *)
(***************************************************************************)
Restart(late) ==
  /\ PollFails(PolledErrors(late))
  /\ failures < MaxFailures
  /\ backend' = IF PolledErrors(late) = Workers THEN backend ELSE "plain"
  /\ backend' \in {backend} \cup (IF backend = "open" THEN Backends ELSE {})
  /\ Deliver
  /\ buffers' = [w \in Workers |-> <<>>]
  /\ thread' = [w \in Workers |-> "training"]
  /\ reportCallIndex' = [w \in Workers |-> delivered']
  /\ currentReportIndex' = [w \in Workers |-> delivered']
  /\ pool' = [w \in Workers |-> <<>>]
  /\ resultQueue' = [w \in Workers |-> <<>>]
  /\ outcome' = [w \in Workers |-> "none"]
  /\ monitored' = [w \in Workers |-> FALSE]
  /\ poll' = [w \in Workers |-> NewPoll]
  /\ barrier' = {}
  /\ round' = delivered'
  /\ UNCHANGED <<faults, control, failing>>

RestartGroup == \E late \in SUBSET (Workers \ Answered) : Restart(late)

(***************************************************************************)
(* Only some replica groups fail: they are replaced one after the other.   *)
(* No poll is submitted meanwhile; one that hangs is still carried out.    *)
(***************************************************************************)
BeginReplacement ==
  /\ \E late \in SUBSET (Workers \ Answered) :
        /\ PollFails(PolledErrors(late))
        /\ failing' = PolledErrors(late)
  /\ failures < MaxFailures
  /\ failing' # Workers
  /\ backend = "replicas" \/ (backend = "open" /\ "replicas" \in Backends)
  /\ backend' = "replicas"
  /\ control' = "replacing"
  /\ Merge
  /\ poll' = [w \in Workers |->
                CASE w \in Answered           -> NewPoll
                  [] poll[w].step = "idle"    -> Poll("queue", NoReport, FALSE, TRUE)
                  [] OTHER                    -> poll[w]]
  /\ UNCHANGED <<workerVars, syncVars>>

-----------------------------------------------------------------------------
(* WorkerGroup._replace_replica_group_impl, for one failing worker at a time *)

Old == CHOOSE w \in failing : TRUE

Survivors == Workers \ {Old}

(* The old worker is shut down and its ongoing poll forgotten. *)
ShutDownOld ==
  /\ control = "replacing"
  /\ Process(Old, "dead", 0)
  /\ poll' = [poll EXCEPT ![Old] = NewPoll]
  /\ control' = "clearing"
  /\ UNCHANGED <<syncVars, buffers, delivered, validating, failures, hangs,
                 failing, backend>>

(* clear_result_queue runs on the survivors after a poll that still hangs. *)
ClearResultQueues ==
  /\ control = "clearing"
  /\ \A w \in Survivors : thread[w] # "dead" /\ poll[w].step \in {"idle", "done"}
  /\ resultQueue' = [w \in Workers |-> <<>>]
  /\ control' = "resetting"
  /\ UNCHANGED <<thread, reportCallIndex, currentReportIndex, pool, outcome,
                 monitored, poll, syncVars, buffers, delivered, validating,
                 failures, hangs, failing, backend>>

(* A survivor that died meanwhile raises RayActorError: not retryable. *)
ClearFails ==
  /\ control = "clearing"
  /\ \E w \in Survivors : thread[w] = "dead"
  /\ control' = "failed"
  /\ UNCHANGED <<workerVars, poll, syncVars, buffers, delivered, validating,
                 failures, hangs, failing, backend>>

(* Mutant: the index is taken back whether the report was skipped or not. *)
AfterResetAlways(w) == reportCallIndex[w] - 1

(* A report skipped by the reset gives its index back. *)
AfterReset(w) ==
  IF thread[w] = "syncing" THEN reportCallIndex[w] - 1 ELSE reportCallIndex[w]

(* reset(): the callers in the barrier skip their report. *)
ResetBarrier ==
  /\ control = "resetting"
  /\ barrier' = {}
  /\ thread' = [w \in Workers |-> IF thread[w] = "syncing" THEN "training" ELSE thread[w]]
  /\ reportCallIndex' = [w \in Workers |-> AfterReset(w)]
  /\ control' = "starting"
  /\ UNCHANGED <<currentReportIndex, pool, resultQueue, outcome, monitored,
                 poll, round, faults, buffers, delivered, validating, failures,
                 hangs, failing, backend>>

(* The new worker starts from the manager's index; all buffers are new. *)
StartNew ==
  /\ control = "starting"
  /\ Process(Old, "training", delivered)
  /\ buffers' = [w \in Workers |-> <<>>]
  /\ failing' = failing \ {Old}
  /\ control' = IF failing' = {} THEN "polling" ELSE "replacing"
  /\ UNCHANGED <<poll, syncVars, delivered, validating, failures, hangs,
                 backend>>

-----------------------------------------------------------------------------
(* Nothing is left to do when the run is over. *)
Terminated == control \in Over /\ UNCHANGED vars

(* The training function goes on to its next report or its end. *)
Advance(w) == Report(w) \/ TrainFnReturns(w)

(* What the training thread does inside Ray Train. *)
ThreadStep(w) ==
  SubmitUpload(w) \/ WaitThenReport(w) \/ ReadReturns(w) \/ EndThread(w)

PollStep(w) == PollReads(w) \/ PollRunning(w) \/ PollDead(w)

Failure(w) == TrainFnRaises(w) \/ PoolFails(w) \/ Die(w)

PollCompletes == HandlerRefuses \/ PollGoesOn \/ PollFinishes

Replace ==
  ShutDownOld \/ ClearResultQueues \/ ClearFails \/ ResetBarrier \/ StartNew

Next ==
  \/ \E w \in Workers :
       \/ Advance(w)
       \/ ReadCheckpoints(w)
       \/ ThreadStep(w)
       \/ PoolReports(w)
       \/ Monitor(w)
       \/ PollStep(w)
       \/ Failure(w)
  \/ CompleteBarrier
  \/ PollCompletes
  \/ Settle
  \/ GiveUp
  \/ RestartGroup
  \/ BeginReplacement
  \/ Replace
  \/ Terminated

Spec == Init /\ [][Next]_vars

(***************************************************************************)
(* Threads and actors that can run do run, uploads end, pending validations *)
(* are settled (PendingIsResolved of ValidationManager), and the training  *)
(* function reads the checkpoints only finitely often between two reports. *)
(***************************************************************************)
Fairness ==
  /\ \A w \in Workers :
       /\ SF_vars(Advance(w))
       /\ WF_vars(ThreadStep(w))
       /\ WF_vars(PoolReports(w))
       /\ WF_vars(Monitor(w))
       /\ WF_vars(PollStep(w))
  /\ WF_vars(CompleteBarrier)
  /\ WF_vars(Settle)
  /\ WF_vars(PollCompletes \/ GiveUp \/ RestartGroup \/ BeginReplacement \/ Replace)

FairSpec == Spec /\ Fairness

-----------------------------------------------------------------------------
(* Properties *)

Job == [index : Nat, report : Nat]

(* Every variable has the shape of the attribute it models. *)
TypeOK ==
  /\ thread \in [Workers -> Threads]
  /\ reportCallIndex \in [Workers -> Nat]
  /\ currentReportIndex \in [Workers -> Nat]
  /\ pool \in [Workers -> Seq(Job)]
  /\ resultQueue \in [Workers -> Seq(Nat)]
  /\ outcome \in [Workers -> {"none", "returned", "raised"}]
  /\ monitored \in [Workers -> BOOLEAN]
  /\ poll \in [Workers -> [step : PollSteps, report : Nat, error : BOOLEAN,
                           running : BOOLEAN]]
  /\ barrier \in SUBSET Workers
  /\ round \in Nat
  /\ faults \in 0..MaxFaults
  /\ buffers \in [Workers -> Seq(Nat)]
  /\ delivered \in Nat
  /\ validating \in BOOLEAN
  /\ control \in Over \cup {"polling", "replacing", "clearing", "resetting", "starting"}
  /\ failures \in Nat
  /\ hangs \in 0..MaxHangs
  /\ failing \in SUBSET Workers
  /\ backend \in {"open", "plain", "replicas"}

(* The reports of w that were put and not merged yet, oldest first. *)
InTransit(w) ==
  buffers[w] \o (IF poll[w].report = NoReport THEN <<>> ELSE <<poll[w].report>>)
    \o resultQueue[w]

(* Replacing a replica group restarts the numbering of one worker only. *)
NoReplacement == backend # "replicas"

(***************************************************************************)
(* Between the training function and the manager no report is lost,        *)
(* duplicated or overtaken, whatever mix of synchronous and asynchronous   *)
(* uploads, hanging polls and failures: what is in transit of a live       *)
(* worker is exactly the reports after the last one delivered, up to the   *)
(* last one put, in order.                                                 *)
(***************************************************************************)
NothingLost ==
  NoReplacement =>
    \A w \in Workers : thread[w] # "dead" =>
      /\ delivered <= currentReportIndex[w]
      /\ currentReportIndex[w] <= reportCallIndex[w]
      /\ InTransit(w) =
           [i \in 1..(currentReportIndex[w] - delivered) |-> delivered + i]

(***************************************************************************)
(* after_worker_group_poll_status merges only reports of the same report() *)
(* call: its check for inconsistent checkpoint paths never fires.          *)
(***************************************************************************)
ReportsBelongTogether == NoReplacement => control # "inconsistent"

(***************************************************************************)
(* The handler merges at most one report of each worker per poll, and that *)
(* is enough: it never holds a complete set of reports after a poll, so    *)
(* none is left over when the workers finish.                              *)
(***************************************************************************)
HandlerKeepsUp == \E w \in Workers : buffers[w] = <<>>

(***************************************************************************)
(* A group whose workers all returned delivered every report but, at       *)
(* worst, the last: poll_status reads the queue before it asks whether the *)
(* thread runs, and loses a report that is put between the two.            *)
(***************************************************************************)
FinishedDelivered ==
  control = "finished" /\ NoReplacement /\ (\A w \in Workers : outcome[w] = "returned")
    => delivered >= MaxReports - 1

(***************************************************************************)
(* Nothing blocks for ever: not a report that waits for its turn behind an *)
(* upload that failed, nor a full queue, a barrier with a dead member, a   *)
(* reader that waits for the manager's index or for the validations, or a  *)
(* hanging poll.                                                           *)
(***************************************************************************)
RunEnds == <>(control \in Over \/ backend = "replicas")

(***************************************************************************)
(* "Join the monitor thread. This ensures that a queued exception is       *)
(* processed before the target function is considered done"                *)
(* (thread_runner.py): no run finishes over an exception of a worker.      *)
(***************************************************************************)
NoErrorLost == control = "finished" => \A w \in Workers : outcome[w] # "raised"

(***************************************************************************)
(* "Clear result queues on surviving workers to avoid mixed-generation     *)
(* results" (worker_group.py): a replacement never makes the handler merge *)
(* reports of different calls.                                             *)
(***************************************************************************)
NoMixedGenerations == control # "inconsistent"
=============================================================================

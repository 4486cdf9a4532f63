-------------------------- MODULE ValidationManager ---------------------------
(***************************************************************************)
(* The asynchronous validation of reported checkpoints                     *)
(* (validation_manager.py), with the part of the checkpoint manager that   *)
(* remembers which checkpoints are pending and the part of the controller  *)
(* that calls the hooks: after_report, after_controller_state_update (every *)
(* iteration of the control loop), before_controller_shutdown (a loop that *)
(* sleeps between two polls) and before_controller_abort.                  *)
(*                                                                         *)
(* A checkpoint stands for its report, its validation task and the         *)
(* bookkeeping entries of both: a manager launches at most one task for a  *)
(* checkpoint.  Storage holds what the last save wrote; all the rest dies  *)
(* with the controller process.  A save may fail, and so may the insertion *)
(* of a result whose metrics cannot be scored (see CheckpointManager, which *)
(* also says what a snapshot must be like for a relaunch to load it).      *)
(***************************************************************************)
EXTENDS Integers, Sequences, FiniteSets, SequencesExt, Filters

CONSTANTS
  Checkpoints,   \* the checkpoints reported with a validation
  Limits,        \* values of MAX_IN_FLIGHT_VALIDATIONS to consider
  WithTimeout,   \* the checkpoints whose validation has a timeout_s
  Endless,       \* the checkpoints whose validation never ends by itself
  MaxLaunches    \* bound: the run is started at most so often

(* A validation that never ends and has no timeout occupies its slot for   *)
(* ever; the liveness properties are about configurations without one.     *)
ASSUME ValidationAssumption ==
  /\ IsFiniteSet(Checkpoints)
  /\ Limits \subseteq Nat \ {0}
  /\ WithTimeout \subseteq Checkpoints
  /\ Endless \subseteq WithTimeout
  /\ MaxLaunches \in Nat \ {0}

VARIABLES
  (* the checkpoint manager: what it knows of every checkpoint *)
  status,
  stored,       \* status as the snapshot on storage has it
  refused,      \* history: registered as pending in a call that raised
  (* the ValidationManager *)
  queue,        \* _training_report_queue
  inFlight,     \* the keys of _pending_validations, in order
  timedOut,     \* _timed_out_tasks
  finished,     \* the keys of _finished_validations, in order
  limit,        \* MAX_IN_FLIGHT_VALIDATIONS
  (* the tasks and their clock *)
  task,         \* what became of the validation task of every checkpoint
  expired,      \* the tasks that have run for timeout_s or longer
  cancelled,    \* the tasks before_controller_abort has asked to stop
  (* the controller *)
  phase,        \* what the controller is doing
  raised,       \* before_controller_shutdown ended with an exception
  aborted,      \* abort() was called
  launches      \* how often the run was started

manager == <<queue, inFlight, timedOut, finished>>
tasks == <<task, expired, cancelled>>
results == <<status, stored, refused>>
control == <<phase, raised, aborted, launches>>
vars == <<results, manager, limit, tasks, control>>

(* ReportedCheckpointStatus, with "unreported" before the report and       *)
(* "dropped" for a checkpoint that is not a result, as its insertion       *)
(* raised.                                                                 *)
Settled == {"validated", "failed", "timeout"}
Status == {"unreported", "pending", "dropped"} \cup Settled
Ended == {"ok", "raised", "crashed", "cancelled"}
(* "closing": an exception of a report is about to set ShuttingDown.       *)
Phases == {"running", "closing", "draining", "over", "gone"}

Elements(s) == {s[i] : i \in DOMAIN s}

----------------------------------------------------------------------------
(* The bookkeeping of one poll, as functions of the state before it.       *)

(* _cancel_timed_out_validations: the overdue tasks leave the in-flight    *)
(* map for the finished one in the order of their launch.                  *)
IsExpired(c) == c \in expired
Overdue == Filter(inFlight, {c \in Checkpoints : IsExpired(c)})

(* ray.wait with timeout 0 returns the tasks that have ended, in the order *)
(* of its argument.                                                        *)
IsDone(c) == c \notin expired /\ task[c] \in Ended
Done == Filter(inFlight, {c \in Checkpoints : IsDone(c)})

(* Mutant: the cancelled tasks are not taken out of the in-flight map.      *)
IsStillRunningOverdueToo(c) == task[c] \notin Ended
IsStillRunning(c) == c \notin expired /\ task[c] \notin Ended
StillInFlight == Filter(inFlight, {c \in Checkpoints : IsStillRunning(c)})

(* _finished_validations and _timed_out_tasks after the first half of      *)
(* _poll_validations.                                                      *)
AllFinished == finished \o Overdue \o Done
AllTimedOut == timedOut \cup Elements(Overdue)

(* _process_finished_validation: a time-out is recognised before the task  *)
(* is asked; ray.get of a cancelled task leaves the checkpoint pending; a  *)
(* task that died without an error of its own raises an exception that     *)
(* nothing in the manager catches.                                         *)
Raises(c) == c \notin AllTimedOut /\ task[c] = "crashed"
Verdict(c) ==
  CASE c \in AllTimedOut -> "timeout"
    [] c \notin AllTimedOut /\ task[c] = "ok" -> "validated"
    [] c \notin AllTimedOut /\ task[c] = "raised" -> "failed"
    [] OTHER -> "pending"

(* update_checkpoints_with_validation_result, for a set of checkpoints.    *)
Updated(S) ==
  [c \in Checkpoints |->
     IF c \in S /\ status[c] = "pending" THEN Verdict(c) ELSE status[c]]

(* update_checkpoints_with_validation_result raises for the checkpoints of *)
(* s: storage fails after all of them were updated, or one of them cannot  *)
(* be put back among the results and the later ones are left alone.  The   *)
(* ones in `before` were updated earlier in the same step, and `saved` is   *)
(* what was on storage then.                                               *)
UpdateRaises(before, s, saved) ==
  \/ /\ status' = Updated(before \cup Elements(s))
     /\ stored' \in {saved, status'}
  \/ \E i \in DOMAIN s :
       /\ status[s[i]] = "pending" /\ Verdict(s[i]) = "validated"
       /\ status' = [Updated(before \cup {s[j] : j \in 1..(i - 1)})
                       EXCEPT ![s[i]] = "dropped"]
       /\ stored' = saved

(* _poll_validations takes one finished validation out of its map.  An     *)
(* abort leaves nothing to update; any update is saved.                    *)
First == {AllFinished[i] : i \in DOMAIN AllFinished \cap {1}}
Rest == IF AllFinished = <<>> THEN <<>> ELSE Tail(AllFinished)
TakeFirst ==
  /\ finished' = Rest
  /\ timedOut' = AllTimedOut \ First
  /\ UNCHANGED refused
HasUpdate == \E c \in First : Verdict(c) # "pending"
StoredByPoll == IF HasUpdate THEN Updated(First) ELSE stored
Poll ==
  /\ \A c \in First : ~Raises(c)
  /\ TakeFirst
  /\ status' = Updated(First) /\ stored' = StoredByPoll
PollRaises ==
  /\ TakeFirst
  /\ \E c \in First :
       \/ Raises(c) /\ UNCHANGED <<status, stored>>
       \/ Verdict(c) # "pending" /\ UpdateRaises({}, <<c>>, stored)

(* _kick_off_validations, after the poll: as many as there are free slots. *)
(* Mutants: the tasks in flight are not counted; the last slot is never    *)
(* used.                                                                   *)
NumToStartIgnoring ==
  IF limit < Len(queue) THEN limit ELSE Len(queue)
NumToStartShort ==
  LET free == limit - 1 - Len(StillInFlight)
  IN  IF free < 0 THEN 0 ELSE IF free < Len(queue) THEN free ELSE Len(queue)
NumToStart ==
  LET free == limit - Len(StillInFlight)
  IN  IF free < Len(queue) THEN free ELSE Len(queue)
Started == SubSeq(queue, 1, NumToStart)
KickOff ==
  /\ inFlight' = StillInFlight \o Started
  /\ queue' = SubSeq(queue, NumToStart + 1, Len(queue))
  /\ task' = [c \in Checkpoints |->
                IF c \in Elements(Started) THEN "running"
                ELSE IF c \in Elements(Overdue) THEN "cancelled"
                ELSE task[c]]

(* A poll that is not followed by a kick-off.                              *)
NoKickOff ==
  /\ inFlight' = StillInFlight
  /\ task' = [c \in Checkpoints |->
                IF c \in Elements(Overdue) THEN "cancelled" ELSE task[c]]
  /\ UNCHANGED queue

----------------------------------------------------------------------------
(* __init__ and _requeue_incomplete_validations: the queue of a new        *)
(* manager holds the pending checkpoints of the restored state, in the     *)
(* order of their reports, which the model leaves open.                    *)
Requeue ==
  queue' \in SetToSeqs({c \in Checkpoints : stored[c] = "pending"})

Init ==
  /\ status = [c \in Checkpoints |-> "unreported"]
  /\ stored = status /\ refused = {}
  /\ queue = <<>> /\ inFlight = <<>> /\ timedOut = {} /\ finished = <<>>
  /\ limit \in Limits
  /\ task = [c \in Checkpoints |-> "none"]
  /\ expired = {} /\ cancelled = {}
  /\ phase = "running" /\ raised = FALSE /\ aborted = FALSE
  /\ launches = 1

(* A report with a validation: the checkpoint manager registers it as      *)
(* pending and saves, then after_report of the ValidationManager queues    *)
(* it.                                                                     *)
Report(c) ==
  /\ phase = "running" /\ ~aborted
  /\ status[c] = "unreported"
  /\ status' = [status EXCEPT ![c] = "pending"]
  /\ stored' = status'
  /\ queue' = Append(queue, c)
  /\ UNCHANGED <<refused, inFlight, timedOut, finished, limit, tasks, control>>

(* A report that register_checkpoint does not survive: its save fails, with *)
(* the checkpoint pending, or already its insertion.  The ValidationManager *)
(* never hears of it, and the run is over.                                 *)
ReportRaises(c) ==
  /\ phase = "running" /\ ~aborted
  /\ status[c] = "unreported"
  /\ \/ /\ status' = [status EXCEPT ![c] = "pending"]
        /\ stored' \in {stored, status'}
        /\ refused' = refused \cup {c}
     \/ /\ status' = [status EXCEPT ![c] = "dropped"]
        /\ UNCHANGED <<stored, refused>>
  /\ phase' = "closing"
  /\ UNCHANGED <<manager, limit, tasks, raised, aborted, launches>>

(* External: the validation function returns, raises, or its process dies; *)
(* a task that was asked to stop may end as cancelled instead.             *)
TaskEnds(c, how) ==
  /\ task[c] = "running"
  /\ c \in Endless => how = "cancelled"
  /\ how = "cancelled" => c \in cancelled
  /\ phase # "gone"
  /\ task' = [task EXCEPT ![c] = how]
  /\ UNCHANGED <<results, manager, limit, expired, cancelled, control>>

(* External: timeout_s passes.  The clock goes on whether or not the task  *)
(* has ended, until a poll takes it out of the in-flight map.              *)
Expire(c) ==
  /\ c \in WithTimeout \cap Elements(inFlight)
  /\ c \notin expired
  /\ phase # "gone"
  /\ expired' = expired \cup {c}
  /\ UNCHANGED <<results, manager, limit, task, cancelled, control>>

(* after_controller_state_update, called when the control loop sets a      *)
(* non-terminal state.  `next` says whether that state is ShuttingDown.    *)
StateUpdate(next) ==
  /\ phase = "running" \/ (phase = "closing" /\ next = "draining")
  /\ ~aborted
  /\ Poll /\ KickOff
  /\ phase' = next
  /\ UNCHANGED <<limit, expired, cancelled, raised, aborted, launches>>

(* The same, when the poll raises: no task is launched, and the run is     *)
(* over, because a failing controller hook is never retried.  The          *)
(* validation was already taken out of the finished map.                   *)
StateUpdateFails ==
  /\ phase \in {"running", "closing"} /\ ~aborted
  /\ PollRaises /\ NoKickOff
  /\ phase' = "draining"
  /\ UNCHANGED <<limit, expired, cancelled, raised, aborted, launches>>

(* before_controller_shutdown: one turn of the loop, up to its sleep.  The *)
(* next tasks are launched only once none is in flight.                    *)
DrainWaits ==
  /\ phase = "draining"
  /\ Poll
  /\ \/ StillInFlight # <<>> /\ NoKickOff
     \/ StillInFlight = <<>> /\ queue # <<>> /\ KickOff
  /\ UNCHANGED <<limit, expired, cancelled, control>>

(* The turn in which the loop ends: what is still in the finished map is   *)
(* processed and the checkpoint manager is updated, and saved, once for    *)
(* all of it.                                                              *)
(* Mutant: what the last poll left in the finished map is dropped.         *)
BatchOfOne == First
Batch == Elements(AllFinished)
LoopEnds == phase = "draining" /\ StillInFlight = <<>> /\ queue = <<>>
DrainEnds ==
  /\ LoopEnds
  /\ \A c \in Batch : ~Raises(c)
  /\ status' = Updated(Batch) /\ stored' = status'
  /\ finished' = <<>> /\ timedOut' = {}
  /\ NoKickOff
  /\ phase' = "over"
  /\ UNCHANGED <<refused, limit, expired, cancelled, raised, aborted, launches>>

(* A turn in which processing or recording a validation raises: the hook   *)
(* ends, and with it the run.  What the poll of this turn processed is     *)
(* recorded, even if a crashed task of the batch or its update raises.     *)
DrainFails ==
  /\ phase = "draining"
  /\ \/ PollRaises
     \/ LoopEnds /\ Poll /\ \E c \in Batch : Raises(c)
     \/ /\ LoopEnds /\ \A c \in Batch : ~Raises(c)
        /\ UpdateRaises(First, Rest, StoredByPoll)
        /\ finished' = <<>> /\ timedOut' = {} /\ UNCHANGED refused
  /\ NoKickOff
  /\ phase' = "over" /\ raised' = TRUE
  /\ UNCHANGED <<limit, expired, cancelled, aborted, launches>>

(* abort: before_controller_abort asks the tasks in flight to stop; the    *)
(* process ends a moment later, and until then the other coroutine may go  *)
(* on draining.                                                            *)
Abort ==
  /\ phase \in {"running", "draining"} /\ ~aborted
  /\ aborted' = TRUE
  /\ cancelled' = cancelled \cup Elements(inFlight)
  /\ UNCHANGED <<results, manager, limit, task, expired, phase, raised, launches>>

(* External: the controller process ends, after an abort or by a crash,    *)
(* and takes the tasks it owns with it.                                    *)
ProcessEnds ==
  /\ phase \in {"running", "closing", "draining"}
  /\ phase' = "gone"
  /\ UNCHANGED <<results, manager, limit, tasks, raised, aborted, launches>>

(* A new run on the same storage path.                                     *)
Relaunch ==
  /\ phase \in {"over", "gone"}
  /\ launches < MaxLaunches
  /\ launches' = launches + 1
  /\ status' = stored /\ refused' = {}
  /\ Requeue
  /\ inFlight' = <<>> /\ timedOut' = {} /\ finished' = <<>>
  /\ task' = [c \in Checkpoints |-> "none"]
  /\ expired' = {} /\ cancelled' = {}
  /\ phase' = "running" /\ raised' = FALSE /\ aborted' = FALSE
  /\ UNCHANGED <<stored, limit>>

Next ==
  \/ \E c \in Checkpoints :
       \/ Report(c) \/ ReportRaises(c)
       \/ Expire(c)
       \/ \E how \in Ended : TaskEnds(c, how)
  \/ \E next \in {"running", "draining"} : StateUpdate(next)
  \/ StateUpdateFails
  \/ DrainWaits \/ DrainEnds \/ DrainFails
  \/ Abort \/ ProcessEnds \/ Relaunch

Spec == Init /\ [][Next]_vars

(* The control loop and the drain loop go on as long as their process      *)
(* lives; a validation that can end does; time passes.                     *)
ControllerGoesOn ==
  \/ \E next \in {"running", "draining"} : StateUpdate(next)
  \/ StateUpdateFails
  \/ DrainWaits \/ DrainEnds \/ DrainFails
FairSpec ==
  /\ Spec
  /\ WF_vars(ControllerGoesOn)
  /\ \A c \in Checkpoints \ Endless :
       WF_vars(\E how \in Ended : TaskEnds(c, how))
  /\ \A c \in WithTimeout : WF_vars(Expire(c))

----------------------------------------------------------------------------
(* The states are well formed: sequences of checkpoints, and no task       *)
(* without an entry that launched it.                                      *)
TypeOK ==
  /\ status \in [Checkpoints -> Status]
  /\ stored \in [Checkpoints -> Status]
  /\ refused \subseteq Checkpoints
  /\ queue \in Seq(Checkpoints)
  /\ inFlight \in Seq(Checkpoints)
  /\ finished \in Seq(Checkpoints)
  /\ timedOut \subseteq Elements(finished)
  /\ limit \in Limits /\ Len(inFlight) <= limit
  /\ task \in [Checkpoints -> {"none", "running"} \cup Ended]
  /\ expired \subseteq WithTimeout
  /\ cancelled \subseteq Checkpoints
  /\ phase \in Phases
  /\ raised \in BOOLEAN /\ aborted \in BOOLEAN
  /\ launches \in 1..MaxLaunches

Alive == phase \in {"running", "closing", "draining"} /\ ~aborted
Pending == {c \in Checkpoints : status[c] = "pending"}
Pipeline == queue \o inFlight \o finished

(* The pending checkpoints that no run will validate before the next launch: *)
(* the process of the validation died, and its exception was raised after it *)
(* was taken out of the bookkeeping; or the report itself raised, before the *)
(* ValidationManager heard of it.  Either exception ends the run.          *)
LeftPending == {c \in Checkpoints : task[c] = "crashed" \/ c \in refused}

(* While a run goes on its pending checkpoints are exactly the ones the    *)
(* manager holds, each in one place only: a checkpoint that is nowhere     *)
(* would block every reader of validated checkpoints for ever, and one in  *)
(* two places would be validated twice.  Only a run that is shutting down  *)
(* has others, and a relaunch queues these too.  Holds across time-outs    *)
(* racing the end of the task, saves that fail, aborts and the resumption  *)
(* from storage.                                                           *)
NoneForgotten ==
  Alive =>
    /\ Elements(Pipeline) \subseteq Pending
    /\ \A i, j \in DOMAIN Pipeline : Pipeline[i] = Pipeline[j] => i = j
    /\ Pending \ Elements(Pipeline) \subseteq LeftPending
    /\ phase = "running" => Pending \subseteq Elements(Pipeline)

(* A run whose shutdown hook returned normally, in a process nobody        *)
(* aborted, leaves no checkpoint unvalidated on storage apart from those   *)
(* that the exception which ended the run had already left aside: the      *)
(* drain loop and its final batch process every queued, running and        *)
(* finished validation, and the final save covers all that earlier saves   *)
(* failed to write.                                                        *)
DrainedValidates ==
  phase = "over" /\ ~raised /\ ~aborted =>
    \A c \in Checkpoints :
      /\ stored[c] = status[c]
      /\ stored[c] = "pending" => c \in LeftPending

(* A pending checkpoint does not stay pending for ever in a run that goes  *)
(* on: it is settled, or the run ends.  A slot that is not freed, or a     *)
(* finished task that is never processed, would break it.                  *)
PendingIsResolved ==
  \A c \in Checkpoints :
    status[c] = "pending" ~> status[c] # "pending" \/ ~Alive

(* The shutdown of a controller that nobody aborts or kills waits for      *)
(* validations, but not for ever.                                          *)
ShutdownEnds == phase = "draining" ~> phase \in {"over", "gone"} \/ aborted
=============================================================================

--------------------------- MODULE TrainController ---------------------------
(***************************************************************************)
(* The control loop of one training run: the asyncio actor TrainController *)
(* of ray/train/v2/_internal/execution/controller/controller.py, together  *)
(* with DefaultFailurePolicy, which it consults on every error.            *)
(*                                                                         *)
(* The actor runs two coroutines on one event loop: run(), the control     *)
(* loop, and abort(), which the driver's SIGINT handler submits.  They     *)
(* interleave only where a coroutine really suspends: in the sleep before  *)
(* a poll and while before_controller_shutdown is awaited.  A step of the  *)
(* model is the code between two suspension points, or one iteration of    *)
(* the loop if it does not suspend.                                        *)
(*                                                                         *)
(* Exceptions are named by where they come from: the hook that raised, or  *)
(* "worker" (WorkerGroupError), "startup" (WorkerGroupStartupFailedError   *)
(* and ...TimeoutError), "launch" (any other failure to start a group) and *)
(* "inactive" (the ValueError of WorkerGroup._assert_active).              *)
(***************************************************************************)
EXTENDS Integers

CONSTANTS
  MaxFailures,             \* FailureConfig.max_failures, -1 for no limit
  ControllerFailureLimit,  \* FailureConfig.controller_failure_limit, same
  Sizes,                   \* worker group sizes the scaling policy may choose
  Elastic,                 \* ElasticScalingPolicy, else FixedScalingPolicy
  HasReplicaGroups,        \* Backend.has_replica_groups (TorchFT)
  FailingHooks             \* the callback hooks that may raise in this run

NoError == "none"

(***************************************************************************)
(* Callback hooks whose exceptions change what the controller does.  The   *)
(* failures of before_controller_abort and after_controller_finish are     *)
(* only logged.                                                            *)
(***************************************************************************)
Hooks ==
  {"after_controller_start", "after_controller_state_update",
   "before_controller_execute_resize_decision",
   "before_controller_execute_failure_decision",
   "before_controller_shutdown", "on_controller_start_worker_group",
   "after_worker_group_start", "after_replica_group_start",
   "after_worker_group_poll_status", "before_worker_group_shutdown",
   "after_worker_group_shutdown", "before_worker_group_abort",
   "after_worker_group_abort"}

Errors == Hooks \cup {"worker", "startup", "launch", "inactive"}

ASSUME ControllerAssumption ==
  /\ MaxFailures \in Nat \cup {-1}
  /\ ControllerFailureLimit \in Nat \cup {-1}
  /\ Sizes \subseteq Nat \ {0}
  /\ Elastic \in BOOLEAN
  /\ ~Elastic => \E n \in Sizes : Sizes = {n}
  /\ HasReplicaGroups \in BOOLEAN
  /\ FailingHooks \subseteq Hooks

VARIABLES
  state,      \* self._state
  wg,         \* self._worker_group: none, active, or inactive (cleared state)
  failures,   \* the failure policy's two counters
  attempt,    \* whether a group already trained under the current attempt id
  polled,     \* whether the last poll is more recent than the poll interval
  task,       \* where the coroutine run() is
  shutdown,   \* the locals of a suspended _shutdown()
  abort,      \* the driver's abort() call: none, pending or served
  exiting     \* exit_actor() was called; the process has not exited yet

vars == <<state, wg, failures, attempt, polled, task, shutdown, abort, exiting>>

-----------------------------------------------------------------------------
(* controller/state.py *)

StateTypes ==
  {"INITIALIZING", "SCHEDULING", "RESCHEDULING", "RUNNING", "RESTARTING",
   "RESIZING", "SHUTTING_DOWN", "ERRORED", "FINISHED", "ABORTED"}

States == [type  : StateTypes,
           error : Errors \cup {NoError},
           next  : {"NONE", "ERRORED", "FINISHED"},
           size  : Nat]

MakeState(type, error, next, size) ==
  [type |-> type, error |-> error, next |-> next, size |-> size]

Initializing    == MakeState("INITIALIZING", NoError, "NONE", 0)
Scheduling(n)   == MakeState("SCHEDULING", NoError, "NONE", n)
Rescheduling(e) == MakeState("RESCHEDULING", e, "NONE", 0)
Running         == MakeState("RUNNING", NoError, "NONE", 0)
Restarting(e)   == MakeState("RESTARTING", e, "NONE", 0)
Resizing(n)     == MakeState("RESIZING", NoError, "NONE", n)
Errored(e)      == MakeState("ERRORED", e, "NONE", 0)
Finished        == MakeState("FINISHED", NoError, "NONE", 0)
Aborted         == MakeState("ABORTED", NoError, "NONE", 0)
ShuttingDown(s) == MakeState("SHUTTING_DOWN", s.error, s.type, 0)

IsTerminal(s) == s.type \in {"ERRORED", "FINISHED", "ABORTED"}

(* Mutant: a resize keeps the run attempt id of the group it replaces. *)
NeedsNewRunAttemptExceptResizing(s) == s.type \in {"INITIALIZING", "RESTARTING"}

NeedsNewRunAttempt(s) == s.type \in {"INITIALIZING", "RESTARTING", "RESIZING"}

(* The state a shutdown leads to: ShuttingDownState.next_state. *)
NextState(s) == IF s.next = "ERRORED" THEN Errored(s.error) ELSE Finished

ShuttingDownToErrored(s) == s.type = "SHUTTING_DOWN" /\ s.next = "ERRORED"

-----------------------------------------------------------------------------
(* failure_handling/default.py *)

IsRetryable(e) == e \in {"worker", "startup"}

(* Mutant: count the remaining budget down. *)
CountedDown(n, limit) == IF limit = -1 THEN n ELSE n - 1

(***************************************************************************)
(* make_decision counts a retryable error and compares the count with the  *)
(* limit.  A count that no limit is compared with is only logged, so it    *)
(* is not kept: Counted leaves it alone when the limit is -1.              *)
(***************************************************************************)
Counted(n, limit) == IF limit = -1 THEN n ELSE n + 1

Count(f, e) ==
  [worker     |-> IF e = "worker" THEN Counted(f.worker, MaxFailures)
                  ELSE f.worker,
   controller |-> IF e = "startup" THEN Counted(f.controller, ControllerFailureLimit)
                  ELSE f.controller]

WithinLimit(n, limit) == limit = -1 \/ n <= limit

(* Mutant: one retry too many for worker errors. *)
MakeDecisionOffByOne(f, e) ==
  IF \/ e = "worker" /\ WithinLimit(f.worker - 1, MaxFailures)
     \/ e = "startup" /\ WithinLimit(f.controller, ControllerFailureLimit)
  THEN "RETRY" ELSE "RAISE"

(* f is the counters after Count. *)
MakeDecision(f, e) ==
  IF \/ e = "worker" /\ WithinLimit(f.worker, MaxFailures)
     \/ e = "startup" /\ WithinLimit(f.controller, ControllerFailureLimit)
  THEN "RETRY" ELSE "RAISE"

-----------------------------------------------------------------------------
(* Helpers of the controller. Where a callback may raise, a helper is the  *)
(* set of its possible results.                                            *)

(* Mutant: a failed scheduling is retried as if a group had been running. *)
GetRetryStateAlwaysRestarting(s, e) ==
  IF s.type \in {"RUNNING", "SCHEDULING"} THEN Restarting(e)
  ELSE ShuttingDown(Errored(e))

GetRetryState(s, e) ==
  CASE s.type = "RUNNING"    -> Restarting(e)
    [] s.type = "SCHEDULING" -> Rescheduling(e)
    [] OTHER                 -> ShuttingDown(Errored(e))

(* Mutant: a running group's failure ends the run without shutting down. *)
ExecuteFailureDecisionAtOnce(s, decision, e) ==
  {CASE decision = "RETRY" -> GetRetryState(s, e)
     [] decision # "RETRY" /\ s.type = "RUNNING" -> Errored(e)
     [] OTHER -> ShuttingDown(Errored(e))}

(***************************************************************************)
(* The states that executing a failure decision may lead to.  A failure of *)
(* the failure-decision hook is raised in place of the error at hand.      *)
(***************************************************************************)
ExecuteFailureDecision(s, decision, e) ==
  {IF decision = "RETRY" THEN GetRetryState(s, e) ELSE ShuttingDown(Errored(e))}
  \cup {ShuttingDown(Errored(h)) :
          h \in FailingHooks \cap {"before_controller_execute_failure_decision"}}

(* A failing controller hook is never retryable: see IsRetryable. *)
HookFailure(s, hook) == ExecuteFailureDecision(s, "RAISE", hook)

(***************************************************************************)
(* The states _set_state(s) may leave the controller in.  The failure of   *)
(* the state-update hook is ignored on the way to a terminal state and on  *)
(* the shutdown path of an error, and otherwise replaces s.                *)
(***************************************************************************)
SetState(s) ==
  {s} \cup UNION {HookFailure(s, h) :
         h \in IF IsTerminal(s) \/ ShuttingDownToErrored(s) THEN {}
               ELSE FailingHooks \cap {"after_controller_state_update"}}

(* The tail of _run_control_loop_iteration. *)
Continue(s) ==
  /\ state' \in SetState(s)
  /\ task' = "loop"

(* An exception in _step is routed through the failure policy. *)
Fail(e) ==
  /\ failures' = Count(failures, e)
  /\ \E s \in ExecuteFailureDecision(state, MakeDecision(Count(failures, e), e), e) :
        Continue(s)

Raise(hook) == hook \in FailingHooks /\ Fail(hook)

NoGroup == [status |-> "none", size |-> 0, failing |-> "none"]

(* self._generate_run_attempt_id() at the start of an iteration. *)
CurrentAttempt == IF NeedsNewRunAttempt(state) THEN "fresh" ELSE attempt

(* An iteration of the loop begins in a state of the given types. *)
Iteration(types) ==
  /\ task = "loop"
  /\ state.type \in types

-----------------------------------------------------------------------------
(* The actor is created; _start() runs after_controller_start. *)

Init ==
  /\ state \in {Initializing} \cup
               UNION {HookFailure(Initializing, h) :
                        h \in FailingHooks \cap {"after_controller_start"}}
  /\ wg = NoGroup
  /\ failures = [worker |-> 0, controller |-> 0]
  /\ attempt = "fresh"
  /\ polled = FALSE
  /\ task = "created"
  /\ shutdown = [state |-> Initializing, error |-> NoError]
  /\ abort = "none"
  /\ exiting = FALSE

(* run() is scheduled on the event loop. *)
StartRun ==
  /\ task = "created"
  /\ task' = "loop"
  /\ UNCHANGED <<state, wg, failures, attempt, polled, shutdown, abort, exiting>>

(***************************************************************************)
(* INITIALIZING, RESTARTING, RESCHEDULING: ask the scaling policy.         *)
(***************************************************************************)
MakeScalingDecision ==
  /\ Iteration({"INITIALIZING", "RESTARTING", "RESCHEDULING"})
  /\ attempt' = CurrentAttempt
  /\ \/ Elastic /\ Continue(state)
     \/ \E n \in Sizes : Continue(Scheduling(n))
  /\ UNCHANGED <<wg, failures, polled, shutdown, abort, exiting>>

(***************************************************************************)
(* SCHEDULING: execute the resize decision.  The three actions are the     *)
(* early exit of _execute_resize_decision, the replacement of failing      *)
(* replica groups, and the full restart.  The group is never inactive here *)
(* (GroupIsUsable), so its truth value does not raise.                     *)
(***************************************************************************)
ResizeHookFails ==
  /\ Iteration({"SCHEDULING"})
  /\ Raise("before_controller_execute_resize_decision")
  /\ UNCHANGED <<wg, attempt, polled, shutdown, abort, exiting>>

ReplacesOnlyFailing(n) ==
  HasReplicaGroups /\ wg.status = "active" /\ wg.failing = "some" /\ n = wg.size

ReplaceBadWorkers ==
  /\ Iteration({"SCHEDULING"})
  /\ ReplacesOnlyFailing(state.size)
  /\ \/ /\ Continue(Running)
        /\ polled' = FALSE
        /\ UNCHANGED failures
     \/ /\ Fail("startup") \/ Fail("launch") \/ Raise("after_replica_group_start")
        /\ UNCHANGED polled
  /\ UNCHANGED <<wg, attempt, shutdown, abort, exiting>>

(* What is left of an active group whose shutdown() a hook interrupted. *)
AfterFailedShutdown(hook) ==
  IF hook = "after_worker_group_shutdown"
  THEN [wg EXCEPT !.status = "inactive"] ELSE wg

ShutdownHooks == {"before_worker_group_shutdown", "after_worker_group_shutdown"}

RestartWorkerGroup ==
  /\ Iteration({"SCHEDULING"})
  /\ ~ReplacesOnlyFailing(state.size)
  /\ \/ \E h \in ShutdownHooks :
           /\ wg.status = "active"
           /\ Raise(h)
           /\ wg' = AfterFailedShutdown(h)
           /\ UNCHANGED <<attempt, polled>>
     \/ /\ \/ Raise("on_controller_start_worker_group")
           \/ Raise("after_worker_group_start")
           \/ Fail("startup")
           \/ Fail("launch")
        /\ wg' = NoGroup
        /\ UNCHANGED <<attempt, polled>>
     \/ /\ wg' = [status |-> "active", size |-> state.size, failing |-> "none"]
        /\ attempt' = "started"
        /\ polled' = FALSE
        /\ Continue(Running)
        /\ UNCHANGED failures
  /\ UNCHANGED <<shutdown, abort, exiting>>

(***************************************************************************)
(* RUNNING: sleep until the poll interval has passed, then poll.  Starting *)
(* a group may take longer than the interval, so the first poll of a group *)
(* need not sleep.  The elastic policy does not resize a group younger     *)
(* than its monitor interval, so not at the first poll.                    *)
(***************************************************************************)
PollSleep ==
  /\ Iteration({"RUNNING"})
  /\ task' = "sleeping"
  /\ UNCHANGED <<state, wg, failures, attempt, polled, shutdown, abort, exiting>>

(* abort() ran during the sleep: exit the actor instead of polling. *)
PollAfterAbort ==
  /\ task = "sleeping"
  /\ IsTerminal(state)
  /\ task' = "returned"
  /\ exiting' = TRUE
  /\ UNCHANGED <<state, wg, failures, attempt, polled, shutdown, abort>>

Polling ==
  \/ task = "sleeping" /\ ~IsTerminal(state)
  \/ Iteration({"RUNNING"}) /\ ~polled

PollFails ==
  /\ Polling
  /\ \/ wg.status # "active" /\ Fail("inactive")
     \/ wg.status = "active" /\ Raise("after_worker_group_poll_status")
  /\ UNCHANGED <<wg, attempt, polled, shutdown, abort, exiting>>

PollFindsErrors ==
  /\ Polling
  /\ wg.status = "active"
  /\ \E f \in {"some", "all"} : wg' = [wg EXCEPT !.failing = f]
  /\ Fail("worker")
  /\ polled' = TRUE
  /\ UNCHANGED <<attempt, shutdown, abort, exiting>>

PollFindsHealthy ==
  /\ Polling
  /\ wg.status = "active"
  /\ wg' = [wg EXCEPT !.failing = "none"]
  /\ polled' = TRUE
  /\ \/ Continue(ShuttingDown(Finished))
     \/ Continue(Running)
     \/ \E n \in Sizes \ {wg.size} : Elastic /\ polled /\ Continue(Resizing(n))
  /\ UNCHANGED <<failures, attempt, shutdown, abort, exiting>>

(* RESIZING. *)
Resize ==
  /\ Iteration({"RESIZING"})
  /\ attempt' = CurrentAttempt
  /\ Continue(Scheduling(state.size))
  /\ UNCHANGED <<wg, failures, polled, shutdown, abort, exiting>>

(***************************************************************************)
(* SHUTTING_DOWN: _shutdown() shuts the worker group down, then awaits the *)
(* before_controller_shutdown hooks.                                       *)
(***************************************************************************)
ShutdownRaises ==
  /\ Iteration({"SHUTTING_DOWN"})
  /\ wg.status = "inactive"
  /\ Fail("inactive")
  /\ UNCHANGED <<wg, attempt, polled, shutdown, abort, exiting>>

ShutdownWorkerGroup ==
  /\ Iteration({"SHUTTING_DOWN"})
  /\ \/ /\ wg.status # "inactive"
        /\ wg' = NoGroup
        /\ shutdown' = [state |-> state, error |-> NoError]
     \/ \E h \in ShutdownHooks \cap FailingHooks :
           /\ wg.status = "active"
           /\ wg' = AfterFailedShutdown(h)
           /\ shutdown' = [state |-> state, error |-> h]
  /\ task' = "draining"
  /\ UNCHANGED <<state, failures, attempt, polled, abort, exiting>>

(* Mutant: an error of the worker group's shutdown is dropped. *)
ShutdownErrorOfHooksOnly(h) == h

(* The first error of the shutdown itself, given that the hook raised h. *)
ShutdownError(h) == IF shutdown.error # NoError THEN shutdown.error ELSE h

(* Mutant: a shutdown error replaces the training error. *)
CompleteShutdownOverriding ==
  /\ task = "draining"
  /\ \E h \in {NoError} \cup (FailingHooks \cap {"before_controller_shutdown"}) :
        Continue(IF ShutdownError(h) = NoError THEN NextState(shutdown.state)
                 ELSE Errored(ShutdownError(h)))
  /\ UNCHANGED <<wg, failures, attempt, polled, shutdown, abort, exiting>>

(* The hooks are done; the state is the one read before the await. *)
CompleteShutdown ==
  /\ task = "draining"
  /\ \E h \in {NoError} \cup (FailingHooks \cap {"before_controller_shutdown"}) :
        Continue(IF ShutdownError(h) = NoError \/ shutdown.state.next = "ERRORED"
                 THEN NextState(shutdown.state)
                 ELSE Errored(ShutdownError(h)))
  /\ UNCHANGED <<wg, failures, attempt, polled, shutdown, abort, exiting>>

(* run() leaves the loop; a failure of after_controller_finish is ignored. *)
FinishRun ==
  /\ task = "loop"
  /\ IsTerminal(state)
  /\ task' = "returned"
  /\ UNCHANGED <<state, wg, failures, attempt, polled, shutdown, abort, exiting>>

-----------------------------------------------------------------------------
(* abort() *)

(* The driver's SIGINT handler submits abort(). *)
RequestAbort ==
  /\ abort = "none"
  /\ abort' = "pending"
  /\ UNCHANGED <<state, wg, failures, attempt, polled, task, shutdown, exiting>>

(* abort() can run only while run() is suspended or is not running. *)
EventLoopFree == task \in {"created", "sleeping", "draining", "returned"}

AbortWhenTerminal ==
  /\ abort = "pending"
  /\ EventLoopFree
  /\ IsTerminal(state)
  /\ abort' = "served"
  /\ UNCHANGED <<state, wg, failures, attempt, polled, task, shutdown, exiting>>

(***************************************************************************)
(* The worker group is aborted before the state is set, and an exception   *)
(* from it (or from the truth value of an inactive group) skips the        *)
(* transition.  The actor exits in every case.                             *)
(***************************************************************************)
AbortGroupAndExit ==
  /\ abort = "pending"
  /\ EventLoopFree
  /\ \/ /\ wg.status = "inactive"
        /\ UNCHANGED <<state, wg>>
     \/ /\ wg.status = "active"
        /\ "before_worker_group_abort" \in FailingHooks
        /\ UNCHANGED <<state, wg>>
     \/ /\ wg.status = "active"
        /\ wg' = [wg EXCEPT !.status = "inactive"]
        /\ \/ state' \in SetState(Aborted)
           \/ "after_worker_group_abort" \in FailingHooks /\ UNCHANGED state
     \/ /\ wg.status = "none"
        /\ state' \in SetState(Aborted)
        /\ UNCHANGED wg
  /\ abort' = "served"
  /\ exiting' = TRUE
  /\ UNCHANGED <<failures, attempt, polled, task, shutdown>>

Abort == ~IsTerminal(state) /\ AbortGroupAndExit

(***************************************************************************)
(* exit_actor() only asks for the exit: the core worker notices the        *)
(* request from a periodic check of another thread.                        *)
(***************************************************************************)
ProcessExit ==
  /\ exiting
  /\ task # "exited"
  /\ task' = "exited"
  /\ UNCHANGED <<state, wg, failures, attempt, polled, shutdown, abort, exiting>>

(* Nothing is left to do once run() has returned or the process is gone. *)
Terminated ==
  /\ task \in {"returned", "exited"}
  /\ UNCHANGED vars

RunStep ==
  \/ StartRun
  \/ MakeScalingDecision
  \/ ResizeHookFails
  \/ ReplaceBadWorkers
  \/ RestartWorkerGroup
  \/ PollSleep
  \/ PollAfterAbort
  \/ PollFails
  \/ PollFindsErrors
  \/ PollFindsHealthy
  \/ Resize
  \/ ShutdownRaises
  \/ ShutdownWorkerGroup
  \/ CompleteShutdown
  \/ FinishRun

AbortStep == AbortWhenTerminal \/ Abort

Next ==
  \/ RunStep
  \/ RequestAbort
  \/ AbortStep
  \/ ProcessExit
  \/ Terminated

Spec == Init /\ [][Next]_vars

(***************************************************************************)
(* The event loop keeps running whichever coroutine is ready: run() is     *)
(* never left ready forever, and a submitted abort() is taken up when the  *)
(* loop is free, before the timer that run() sleeps on fires again.        *)
(***************************************************************************)
Fairness ==
  /\ WF_vars(RunStep)
  /\ SF_vars(AbortStep)
  /\ WF_vars(ProcessExit)

FairSpec == Spec /\ Fairness

-----------------------------------------------------------------------------
(* Properties *)

(* Every variable has the shape of the Python attribute it models. *)
TypeOK ==
  /\ state \in States
  /\ wg \in [status : {"none", "active", "inactive"}, size : Nat,
             failing : {"none", "some", "all"}]
  /\ failures \in [worker : Nat, controller : Nat]
  /\ attempt \in {"fresh", "started"}
  /\ polled \in BOOLEAN
  /\ task \in {"created", "loop", "sleeping", "draining", "returned", "exited"}
  /\ shutdown \in [state : States, error : Errors \cup {NoError}]
  /\ abort \in {"none", "pending", "served"}
  /\ exiting \in BOOLEAN

(***************************************************************************)
(* _poll_workers and the running scaling decision dereference the worker   *)
(* group without a check, and _execute_resize_decision takes its truth     *)
(* value, which raises for a group that was shut down.  In every state     *)
(* that assumes workers the group is there and active, unless abort() has  *)
(* torn it down, and no inactive group is ever scheduled over.             *)
(***************************************************************************)
GroupIsUsable ==
  /\ state.type \in {"RUNNING", "RESTARTING", "RESIZING"} =>
       wg.status = "active" \/ exiting
  /\ state.type \in {"SCHEDULING", "RESCHEDULING"} => wg.status # "inactive"

(* The run has failed for good. *)
GivesUp(s) == ShuttingDownToErrored(s) \/ s.type = "ERRORED"

(***************************************************************************)
(* The retry budget of the failure policy, both ways: as long as the run   *)
(* goes on no counter has passed its limit, and a run is given up for a    *)
(* retryable error only when that error's budget is really spent.          *)
(***************************************************************************)
RetryBudget ==
  /\ ~GivesUp(state) /\ state.type # "ABORTED" =>
       /\ WithinLimit(failures.worker, MaxFailures)
       /\ WithinLimit(failures.controller, ControllerFailureLimit)
  /\ GivesUp(state) =>
       /\ state.error = "worker" => ~WithinLimit(failures.worker, MaxFailures)
       /\ state.error = "startup" =>
            ~WithinLimit(failures.controller, ControllerFailureLimit)

(***************************************************************************)
(* A run that reports FINISHED has released its workers: a shutdown whose  *)
(* worker group could not be torn down never ends in FINISHED.             *)
(***************************************************************************)
FinishedReleasesWorkers == state.type = "FINISHED" => wg.status = "none"

(***************************************************************************)
(* The outcome of run() is never revised: neither a late abort() nor a     *)
(* failing callback changes FINISHED or ERRORED, or the reported error.    *)
(***************************************************************************)
ResultIsFinal ==
  [][state.type \in {"FINISHED", "ERRORED"} => state' = state]_vars

(***************************************************************************)
(* _shutdown and _set_state preserve the error that ended the run: from    *)
(* the moment the controller shuts down for it, nothing replaces it unless *)
(* abort() is making the actor exit ("the original error is preserved").   *)
(***************************************************************************)
RootCausePreserved ==
  [][ShuttingDownToErrored(state) => exiting' \/ state'.error = state.error]_vars

(***************************************************************************)
(* A run attempt is one scheduling and execution of workers (state.py):    *)
(* no two worker groups train under the same run attempt id, however       *)
(* restarts, reschedulings and resizes follow each other.                  *)
(***************************************************************************)
FreshAttempt ==
  [][(state.type = "SCHEDULING" /\ wg'.status = "active" /\ wg' # wg)
        => attempt = "fresh"]_vars

(* A submitted abort() is eventually carried out. *)
AbortServed == abort = "pending" ~> abort = "served"
=============================================================================

------------------------ MODULE TrainControllerProofs ------------------------
(***************************************************************************)
(* Proofs about TrainController, for every value of its constants: its     *)
(* invariants, and the safety part of its refinement of TrainingRun.       *)
(***************************************************************************)
EXTENDS ControllerRefinement, TLAPS

-----------------------------------------------------------------------------
(* What the helpers of the controller return. *)

(* Every state constructor yields a state. *)
LEMMA ConstructorTypes ==
  /\ Initializing \in States /\ Running \in States
  /\ Finished \in States /\ Aborted \in States
  /\ \A n \in Nat : Scheduling(n) \in States /\ Resizing(n) \in States
  /\ \A e \in Errors : /\ Rescheduling(e) \in States
                       /\ Restarting(e) \in States
                       /\ Errored(e) \in States
                       /\ ShuttingDown(Errored(e)) \in States
  /\ ShuttingDown(Finished) \in States
  BY DEF Initializing, Running, Finished, Aborted, Scheduling, Resizing, Rescheduling,
         Restarting, Errored, ShuttingDown, MakeState, States, StateTypes, Errors,
         Hooks, NoError

(* A state-update hook can only turn a live state into a shutdown for a hook's error. *)
LEMMA SetStateOutcome ==
  ASSUME NEW s, NEW t \in SetState(s)
  PROVE  \/ t = s
         \/ /\ ~IsTerminal(s) /\ ~ShuttingDownToErrored(s)
            /\ \E h \in FailingHooks : t = ShuttingDown(Errored(h))
  BY DEF SetState, HookFailure, ExecuteFailureDecision

(***************************************************************************)
(* What an error in an iteration leads to: a retry, which happens only     *)
(* within the error's budget, or the shutdown of the run for that error or *)
(* for the error of a hook that was called while handling it.              *)
(***************************************************************************)
LEMMA FailOutcome ==
  ASSUME NEW e, Fail(e)
  PROVE  /\ failures' = Count(failures, e)
         /\ task' = "loop"
         /\ \/ /\ MakeDecision(failures', e) = "RETRY"
               /\ state' = GetRetryState(state, e)
            \/ /\ MakeDecision(failures', e) = "RAISE"
               /\ state' = ShuttingDown(Errored(e))
            \/ \E h \in FailingHooks : state' = ShuttingDown(Errored(h))
<1>1. PICK s \in ExecuteFailureDecision(state, MakeDecision(Count(failures, e), e), e) :
         Continue(s)
  BY DEF Fail
<1>2. failures' = Count(failures, e) /\ task' = "loop"
  BY <1>1 DEF Fail, Continue
<1>3. MakeDecision(failures', e) \in {"RETRY", "RAISE"}
  BY DEF MakeDecision
<1>4. \/ s = IF MakeDecision(failures', e) = "RETRY" THEN GetRetryState(state, e)
             ELSE ShuttingDown(Errored(e))
      \/ \E h \in FailingHooks : s = ShuttingDown(Errored(h))
  BY <1>1, <1>2 DEF ExecuteFailureDecision
<1>5. state' = s \/ \E h \in FailingHooks : state' = ShuttingDown(Errored(h))
  BY <1>1, SetStateOutcome DEF Continue
<1>6. QED
  BY <1>2, <1>3, <1>4, <1>5

-----------------------------------------------------------------------------
(***************************************************************************)
(* The inductive invariant.  The properties of a state are not inductive   *)
(* by themselves: they need to know which states each suspension point of  *)
(* run() can be in, and what a suspended _shutdown() remembers.            *)
(***************************************************************************)

(* In which states run() can be at each of its suspension points. *)
TaskMatchesState ==
  /\ task = "created" => /\ wg = NoGroup
                         /\ state.type \in {"INITIALIZING", "SHUTTING_DOWN", "ABORTED"}
  /\ task = "sleeping" => state.type \in {"RUNNING", "ABORTED"}
  /\ task = "draining" =>
       /\ state = shutdown.state \/ state.type = "ABORTED"
       /\ shutdown.state.type = "SHUTTING_DOWN"
  /\ task = "returned" => IsTerminal(state)

(* Which group each state comes with. *)
GroupMatchesState ==
  /\ state.type = "INITIALIZING" => wg.status = "none"
  /\ state.type \in {"SCHEDULING", "RESCHEDULING"} => wg.status # "inactive"
  /\ state.type \in {"RESTARTING", "RESIZING"} => wg.status = "active"
  /\ state.type = "RUNNING" =>
       wg.status = "active" \/ (exiting /\ task \in {"sleeping", "exited"})
  /\ state.type = "FINISHED" => wg.status = "none"

(* A group whose shutdown succeeded is gone; only a hook can make it fail. *)
DrainedGroup ==
  task = "draining" =>
    /\ shutdown.error = NoError => wg.status = "none"
    /\ shutdown.error \in ShutdownHooks \cup {NoError}

(* RetryBudget for an arbitrary state s. *)
Budget(s) ==
  /\ ~GivesUp(s) /\ s.type # "ABORTED" =>
       /\ WithinLimit(failures.worker, MaxFailures)
       /\ WithinLimit(failures.controller, ControllerFailureLimit)
  /\ GivesUp(s) =>
       /\ s.error = "worker" => ~WithinLimit(failures.worker, MaxFailures)
       /\ s.error = "startup" =>
            ~WithinLimit(failures.controller, ControllerFailureLimit)

ShutdownBudget == task = "draining" => Budget(shutdown.state)

IInv ==
  /\ TypeOK
  /\ TaskMatchesState
  /\ GroupMatchesState
  /\ DrainedGroup
  /\ Budget(state)
  /\ ShutdownBudget

-----------------------------------------------------------------------------
(* What the two ways an iteration can end preserve. *)

(* Giving up for the error of a hook is a state within any budget. *)
LEMMA HookShutdown ==
  ASSUME NEW h \in FailingHooks
  PROVE  /\ ShuttingDown(Errored(h)) \in States
         /\ ShuttingDownToErrored(ShuttingDown(Errored(h)))
         /\ ShuttingDown(Errored(h)).error \notin {"worker", "startup"}
  BY ControllerAssumption, ConstructorTypes
     DEF ShuttingDown, Errored, MakeState, ShuttingDownToErrored, Errors, Hooks

(* An iteration that ends normally in state s. *)
LEMMA ContinueOutcome ==
  ASSUME NEW s \in States, Continue(s), UNCHANGED failures, Budget(s)
  PROVE  /\ state' \in States
         /\ task' = "loop"
         /\ Budget(state)'
         /\ state' = s \/ ShuttingDownToErrored(state')
<1>1. CASE state' = s
  BY <1>1 DEF Continue, Budget
<1>2. CASE \E h \in FailingHooks : state' = ShuttingDown(Errored(h))
  BY <1>2, HookShutdown DEF Continue, Budget, GivesUp
<1>3. QED
  BY <1>1, <1>2, SetStateOutcome DEF Continue

(* Counting an error keeps the counters natural numbers. *)
LEMMA CountType ==
  ASSUME NEW f \in [worker : Nat, controller : Nat], NEW e
  PROVE  Count(f, e) \in [worker : Nat, controller : Nat]
  BY ControllerAssumption DEF Count, Counted

(***************************************************************************)
(* An iteration that ends with error e in a state that had budget left, or *)
(* with an error that the policy does not count.                           *)
(***************************************************************************)
LEMMA FailPreservesBudget ==
  ASSUME TypeOK, Budget(state), NEW e \in Errors, Fail(e),
         (~GivesUp(state) /\ state.type # "ABORTED") \/ e \notin {"worker", "startup"},
         e = "worker" => state.type = "RUNNING",
         e = "startup" => state.type = "SCHEDULING"
  PROVE  /\ state' \in States
         /\ failures' \in [worker : Nat, controller : Nat]
         /\ task' = "loop"
         /\ Budget(state)'
         /\ \/ e = "worker" /\ state' = Restarting(e)
            \/ e = "startup" /\ state' = Rescheduling(e)
            \/ ShuttingDownToErrored(state')
<1>1. /\ failures' = Count(failures, e) /\ task' = "loop"
      /\ failures' \in [worker : Nat, controller : Nat]
  BY FailOutcome, CountType DEF TypeOK
<1>2. CASE MakeDecision(failures', e) = "RETRY" /\ state' = GetRetryState(state, e)
  <2>1. \/ /\ e = "worker" /\ WithinLimit(failures'.worker, MaxFailures)
           /\ state' = Restarting(e) /\ failures'.controller = failures.controller
        \/ /\ e = "startup" /\ WithinLimit(failures'.controller, ControllerFailureLimit)
           /\ state' = Rescheduling(e) /\ failures'.worker = failures.worker
    BY <1>1, <1>2 DEF MakeDecision, GetRetryState, Count
  <2>2. state' \in States /\ ~GivesUp(state')
    <3>1. state' \in States
      BY <2>1, ConstructorTypes
    <3>2. state'.type \in {"RESTARTING", "RESCHEDULING"}
      BY <2>1 DEF Restarting, Rescheduling, MakeState
    <3>3. QED
      BY <3>1, <3>2 DEF GivesUp, ShuttingDownToErrored
  <2>3. QED
    BY <1>1, <2>1, <2>2 DEF Budget
<1>3. CASE MakeDecision(failures', e) = "RAISE" /\ state' = ShuttingDown(Errored(e))
  <2>1. /\ state' \in States
        /\ ShuttingDownToErrored(state')
        /\ state'.error = e
    BY <1>3, ConstructorTypes DEF ShuttingDown, Errored, MakeState, ShuttingDownToErrored
  <2>2. /\ e = "worker" => ~WithinLimit(failures'.worker, MaxFailures)
        /\ e = "startup" => ~WithinLimit(failures'.controller, ControllerFailureLimit)
    BY <1>3 DEF MakeDecision
  <2>3. QED
    BY <1>1, <2>1, <2>2 DEF Budget, GivesUp
<1>4. CASE \E h \in FailingHooks : state' = ShuttingDown(Errored(h))
  BY <1>1, <1>4, HookShutdown DEF Budget, GivesUp
<1>5. QED
  BY <1>2, <1>3, <1>4, FailOutcome

-----------------------------------------------------------------------------
(* The invariant is inductive. *)

(* The invariant holds when the actor is created, even if after_controller_start raised. *)
LEMMA InitIInv == Init => IInv
<1> SUFFICES ASSUME Init PROVE IInv
  OBVIOUS
<1>1. \/ state = Initializing
      \/ \E h \in FailingHooks : state = ShuttingDown(Errored(h))
  BY DEF Init, HookFailure, ExecuteFailureDecision
<1>2. TypeOK
  <2>1. state \in States
    BY <1>1, ConstructorTypes, HookShutdown
  <2>2. QED
    BY <2>1, ConstructorTypes DEF Init, TypeOK, NoGroup
<1>3. state.type \in {"INITIALIZING", "SHUTTING_DOWN"}
  BY <1>1 DEF Initializing, ShuttingDown, MakeState
<1>4. TaskMatchesState /\ GroupMatchesState /\ DrainedGroup /\ ShutdownBudget
  BY <1>3 DEF Init, TaskMatchesState, GroupMatchesState, DrainedGroup, ShutdownBudget,
              NoGroup
<1>5. Budget(state)
  <2>1. CASE state = Initializing
    BY <2>1, ControllerAssumption
       DEF Init, Budget, GivesUp, Initializing, MakeState, ShuttingDownToErrored, WithinLimit
  <2>2. CASE \E h \in FailingHooks : state = ShuttingDown(Errored(h))
    BY <2>2, HookShutdown DEF Budget, GivesUp
  <2>3. QED
    BY <1>1, <2>1, <2>2
<1>6. QED
  BY <1>2, <1>4, <1>5 DEF IInv

(* A step that leaves state and failures alone keeps every budget. *)
LEMMA BudgetUnchanged ==
  ASSUME Budget(state), ShutdownBudget, UNCHANGED <<state, failures>>
  PROVE  /\ Budget(state)'
         /\ task = "draining" /\ UNCHANGED shutdown => Budget(shutdown.state)'
  BY DEF Budget, ShutdownBudget

(* Asking the scaling policy keeps the invariant. *)
LEMMA MakeScalingDecisionStep ==
  ASSUME IInv, MakeScalingDecision PROVE IInv'
<1>1. PICK s \in {state} \cup {Scheduling(n) : n \in Sizes} : Continue(s)
  BY DEF MakeScalingDecision
<1>2. s \in States /\ s.type \in {state.type, "SCHEDULING"}
  BY <1>1, ConstructorTypes, ControllerAssumption
     DEF IInv, TypeOK, Scheduling, MakeState
<1>3. ~GivesUp(s) /\ ~GivesUp(state) /\ s.type # "ABORTED" /\ state.type # "ABORTED"
  BY <1>2 DEF MakeScalingDecision, Iteration, GivesUp, ShuttingDownToErrored
<1>4. Budget(s)
  BY <1>3 DEF IInv, Budget
<1>5. /\ state' \in States /\ task' = "loop" /\ Budget(state)'
      /\ state' = s \/ ShuttingDownToErrored(state')
  BY <1>1, <1>2, <1>4, ContinueOutcome DEF MakeScalingDecision
<1>6. TypeOK'
  BY <1>5 DEF IInv, TypeOK, MakeScalingDecision, CurrentAttempt
<1>7. GroupMatchesState'
  BY <1>2, <1>5 DEF IInv, GroupMatchesState, MakeScalingDecision, Iteration,
     ShuttingDownToErrored
<1>8. QED
  BY <1>5, <1>6, <1>7 DEF IInv, TaskMatchesState, DrainedGroup, ShutdownBudget

(* A loop iteration that fails with an error the policy does not retry. *)
LEMMA FatalStep ==
  ASSUME IInv, NEW e \in Errors \ {"worker", "startup"}, Fail(e),
         wg' \in [status : {"none", "active", "inactive"}, size : Nat,
                  failing : {"none", "some", "all"}],
         UNCHANGED <<attempt, polled, shutdown, abort, exiting>>
  PROVE  IInv'
<1>1. /\ state' \in States /\ task' = "loop" /\ Budget(state)'
      /\ failures' \in [worker : Nat, controller : Nat]
      /\ ShuttingDownToErrored(state')
  BY FailPreservesBudget DEF IInv
<1>2. TypeOK'
  BY <1>1 DEF IInv, TypeOK
<1>3. QED
  BY <1>1, <1>2 DEF IInv, TaskMatchesState, GroupMatchesState, DrainedGroup,
     ShutdownBudget, ShuttingDownToErrored

(* The errors of the hooks, and the fatal errors, are errors the policy does not retry. *)
LEMMA FatalErrors ==
  /\ FailingHooks \subseteq Errors \ {"worker", "startup"}
  /\ {"launch", "inactive"} \subseteq Errors \ {"worker", "startup"}
  BY ControllerAssumption DEF Errors, Hooks

(* A failing resize-decision hook keeps the invariant. *)
LEMMA ResizeHookFailsStep ==
  ASSUME IInv, ResizeHookFails PROVE IInv'
  BY FatalStep, FatalErrors DEF ResizeHookFails, Raise, IInv, TypeOK

(* Replacing the failing replica groups keeps the invariant. *)
LEMMA ReplaceBadWorkersStep ==
  ASSUME IInv, ReplaceBadWorkers PROVE IInv'
<1>1. /\ state.type = "SCHEDULING" /\ wg.status = "active"
      /\ UNCHANGED <<wg, attempt, shutdown, abort, exiting>>
      /\ ~GivesUp(state)
  BY DEF ReplaceBadWorkers, Iteration, ReplacesOnlyFailing, GivesUp, ShuttingDownToErrored
<1>2. CASE Continue(Running) /\ polled' = FALSE /\ UNCHANGED failures
  <2>1. Running \in States /\ Running.type = "RUNNING" /\ ~GivesUp(Running)
    BY ConstructorTypes DEF Running, MakeState, GivesUp, ShuttingDownToErrored
  <2>2. Budget(Running)
    BY <1>1, <2>1 DEF Budget, IInv
  <2>3. /\ state' \in States /\ task' = "loop" /\ Budget(state)'
        /\ state' = Running \/ ShuttingDownToErrored(state')
    BY <1>2, <2>1, <2>2, ContinueOutcome
  <2>4. TypeOK'
    BY <1>1, <1>2, <2>3 DEF IInv, TypeOK
  <2>5. QED
    BY <1>1, <2>1, <2>3, <2>4 DEF IInv, TaskMatchesState, GroupMatchesState,
       DrainedGroup, ShutdownBudget, ShuttingDownToErrored
<1>3. CASE Fail("startup") /\ UNCHANGED polled
  <2>1. /\ state' \in States /\ task' = "loop" /\ Budget(state)'
        /\ failures' \in [worker : Nat, controller : Nat]
        /\ state' = Rescheduling("startup") \/ ShuttingDownToErrored(state')
    BY <1>1, <1>3, FailPreservesBudget DEF IInv, Errors
  <2>2. TypeOK'
    BY <1>1, <1>3, <2>1 DEF IInv, TypeOK
  <2>3. state'.type \in {"RESCHEDULING", "SHUTTING_DOWN"}
    BY <2>1 DEF ShuttingDownToErrored, Rescheduling, MakeState
  <2>4. QED
    BY <1>1, <2>1, <2>2, <2>3 DEF IInv, TaskMatchesState, GroupMatchesState,
       DrainedGroup, ShutdownBudget
<1>4. CASE (Fail("launch") \/ Raise("after_replica_group_start")) /\ UNCHANGED polled
  BY <1>1, <1>4, FatalStep, FatalErrors DEF Raise, IInv, TypeOK
<1>5. QED
  BY <1>2, <1>3, <1>4 DEF ReplaceBadWorkers

(* A full restart of the worker group keeps the invariant. *)
LEMMA RestartWorkerGroupStep ==
  ASSUME IInv, RestartWorkerGroup PROVE IInv'
<1>1. /\ state.type = "SCHEDULING" /\ ~GivesUp(state) /\ state.size \in Nat
      /\ UNCHANGED <<shutdown, abort, exiting>>
  BY DEF RestartWorkerGroup, Iteration, GivesUp, ShuttingDownToErrored, IInv, TypeOK, States
<1>2. ASSUME NEW h \in ShutdownHooks, Raise(h), wg' = AfterFailedShutdown(h),
             UNCHANGED <<attempt, polled>>
      PROVE  IInv'
  BY <1>1, <1>2, FatalStep, FatalErrors DEF Raise, AfterFailedShutdown, IInv, TypeOK
<1>3. CASE /\ wg' = NoGroup /\ UNCHANGED <<attempt, polled>>
           /\ \/ Raise("on_controller_start_worker_group")
              \/ Raise("after_worker_group_start")
              \/ Fail("launch")
  BY <1>1, <1>3, FatalStep, FatalErrors DEF Raise, NoGroup
<1>4. CASE wg' = NoGroup /\ UNCHANGED <<attempt, polled>> /\ Fail("startup")
  <2>1. /\ state' \in States /\ task' = "loop" /\ Budget(state)'
        /\ failures' \in [worker : Nat, controller : Nat]
        /\ state' = Rescheduling("startup") \/ ShuttingDownToErrored(state')
    BY <1>1, <1>4, FailPreservesBudget DEF IInv, Errors
  <2>2. TypeOK'
    BY <1>1, <1>4, <2>1 DEF IInv, TypeOK, NoGroup
  <2>3. state'.type \in {"RESCHEDULING", "SHUTTING_DOWN"}
    BY <2>1 DEF ShuttingDownToErrored, Rescheduling, MakeState
  <2>4. QED
    BY <1>4, <2>1, <2>2, <2>3 DEF IInv, TaskMatchesState, GroupMatchesState,
       DrainedGroup, ShutdownBudget, NoGroup
<1>5. CASE /\ wg' = [status |-> "active", size |-> state.size, failing |-> "none"]
           /\ attempt' = "started" /\ polled' = FALSE
           /\ Continue(Running) /\ UNCHANGED failures
  <2>1. Running \in States /\ Running.type = "RUNNING" /\ ~GivesUp(Running)
    BY ConstructorTypes DEF Running, MakeState, GivesUp, ShuttingDownToErrored
  <2>2. Budget(Running)
    BY <1>1, <2>1 DEF Budget, IInv
  <2>3. /\ state' \in States /\ task' = "loop" /\ Budget(state)'
        /\ state' = Running \/ ShuttingDownToErrored(state')
    BY <1>5, <2>1, <2>2, ContinueOutcome
  <2>4. TypeOK'
    BY <1>1, <1>5, <2>3 DEF IInv, TypeOK
  <2>5. QED
    BY <1>5, <2>1, <2>3, <2>4 DEF IInv, TaskMatchesState, GroupMatchesState,
       DrainedGroup, ShutdownBudget, ShuttingDownToErrored
<1>6. QED
  BY <1>2, <1>3, <1>4, <1>5 DEF RestartWorkerGroup

(* The controller polls only while it is RUNNING. *)
LEMMA PollingRuns ==
  ASSUME IInv, Polling
  PROVE  state.type = "RUNNING" /\ ~GivesUp(state)
  BY DEF IInv, Polling, TaskMatchesState, IsTerminal, Iteration, GivesUp,
         ShuttingDownToErrored

(* A poll that raises keeps the invariant. *)
LEMMA PollFailsStep ==
  ASSUME IInv, PollFails PROVE IInv'
  BY FatalStep, FatalErrors DEF PollFails, Raise, IInv, TypeOK

(* A poll that finds failed workers keeps the invariant. *)
LEMMA PollFindsErrorsStep ==
  ASSUME IInv, PollFindsErrors PROVE IInv'
<1>1. state.type = "RUNNING" /\ ~GivesUp(state)
  BY PollingRuns DEF PollFindsErrors
<1>2. /\ Fail("worker") /\ polled' = TRUE
      /\ UNCHANGED <<attempt, shutdown, abort, exiting>>
      /\ \E f \in {"some", "all"} : wg' = [wg EXCEPT !.failing = f]
      /\ wg.status = "active"
  BY DEF PollFindsErrors
<1>3. /\ wg' \in [status : {"none", "active", "inactive"}, size : Nat,
                  failing : {"none", "some", "all"}]
      /\ wg'.status = "active"
  BY <1>2 DEF IInv, TypeOK
<1>4. /\ state' \in States /\ task' = "loop" /\ Budget(state)'
      /\ failures' \in [worker : Nat, controller : Nat]
      /\ state' = Restarting("worker") \/ ShuttingDownToErrored(state')
  BY <1>1, <1>2, FailPreservesBudget DEF IInv, Errors
<1>5. TypeOK'
  BY <1>2, <1>3, <1>4 DEF IInv, TypeOK
<1>6. state'.type \in {"RESTARTING", "SHUTTING_DOWN"}
  BY <1>4 DEF ShuttingDownToErrored, Restarting, MakeState
<1>7. QED
  BY <1>3, <1>4, <1>5, <1>6 DEF IInv, TaskMatchesState, GroupMatchesState,
     DrainedGroup, ShutdownBudget

(* A poll that finds no failed worker keeps the invariant. *)
LEMMA PollFindsHealthyStep ==
  ASSUME IInv, PollFindsHealthy PROVE IInv'
<1>1. state.type = "RUNNING" /\ ~GivesUp(state)
  BY PollingRuns DEF PollFindsHealthy
<1>2. /\ wg' \in [status : {"none", "active", "inactive"}, size : Nat,
                  failing : {"none", "some", "all"}]
      /\ wg'.status = "active"
      /\ polled' = TRUE /\ UNCHANGED <<failures, attempt, shutdown, abort, exiting>>
  BY DEF PollFindsHealthy, IInv, TypeOK
<1>3. PICK s \in {ShuttingDown(Finished), Running} \cup {Resizing(n) : n \in Sizes} :
         Continue(s)
  BY DEF PollFindsHealthy
<1>4. s \in States
  BY ConstructorTypes, ControllerAssumption
<1>5. /\ s.type \in {"SHUTTING_DOWN", "RUNNING", "RESIZING"}
      /\ ~GivesUp(s)
  BY DEF ShuttingDown, Finished, Running, Resizing, MakeState, GivesUp,
         ShuttingDownToErrored
<1>6. Budget(s)
  BY <1>1, <1>5 DEF Budget, IInv
<1>7. /\ state' \in States /\ task' = "loop" /\ Budget(state)'
      /\ state' = s \/ ShuttingDownToErrored(state')
  BY <1>2, <1>3, <1>4, <1>6, ContinueOutcome
<1>8. TypeOK'
  BY <1>2, <1>7 DEF IInv, TypeOK
<1>9. QED
  BY <1>2, <1>5, <1>7, <1>8 DEF IInv, TaskMatchesState, GroupMatchesState,
     DrainedGroup, ShutdownBudget, ShuttingDownToErrored

(* Leaving RESIZING keeps the invariant. *)
LEMMA ResizeStep ==
  ASSUME IInv, Resize PROVE IInv'
<1>1. /\ state.type = "RESIZING" /\ ~GivesUp(state) /\ state.size \in Nat
  BY DEF Resize, Iteration, GivesUp, ShuttingDownToErrored, IInv, TypeOK, States
<1>2. /\ Scheduling(state.size) \in States
      /\ Scheduling(state.size).type = "SCHEDULING"
      /\ ~GivesUp(Scheduling(state.size))
  BY <1>1, ConstructorTypes DEF Scheduling, MakeState, GivesUp, ShuttingDownToErrored
<1>3. Budget(Scheduling(state.size))
  BY <1>1, <1>2 DEF Budget, IInv
<1>4. /\ state' \in States /\ task' = "loop" /\ Budget(state)'
      /\ state' = Scheduling(state.size) \/ ShuttingDownToErrored(state')
  BY <1>2, <1>3, ContinueOutcome DEF Resize
<1>5. TypeOK'
  BY <1>4 DEF IInv, TypeOK, Resize, CurrentAttempt
<1>6. QED
  BY <1>1, <1>2, <1>4, <1>5 DEF IInv, TaskMatchesState, GroupMatchesState,
     DrainedGroup, ShutdownBudget, ShuttingDownToErrored, Resize

(* A shutdown that raises on an inactive group keeps the invariant. *)
LEMMA ShutdownRaisesStep ==
  ASSUME IInv, ShutdownRaises PROVE IInv'
  BY FatalStep, FatalErrors DEF ShutdownRaises, IInv, TypeOK

(* Shutting the worker group down keeps the invariant. *)
LEMMA ShutdownWorkerGroupStep ==
  ASSUME IInv, ShutdownWorkerGroup PROVE IInv'
<1>1. /\ state.type = "SHUTTING_DOWN" /\ task' = "draining"
      /\ UNCHANGED <<state, failures, attempt, polled, abort, exiting>>
      /\ shutdown'.state = state
  BY DEF ShutdownWorkerGroup, Iteration
<1>2. /\ shutdown' \in [state : States, error : Errors \cup {NoError}]
      /\ shutdown'.error = NoError => wg' = NoGroup
      /\ shutdown'.error \in ShutdownHooks \cup {NoError}
      /\ wg' = NoGroup \/ \E h \in ShutdownHooks : wg' = AfterFailedShutdown(h)
  <2>1. CASE wg' = NoGroup /\ shutdown' = [state |-> state, error |-> NoError]
    BY <2>1 DEF IInv, TypeOK
  <2>2. ASSUME NEW h \in ShutdownHooks \cap FailingHooks,
               wg' = AfterFailedShutdown(h), shutdown' = [state |-> state, error |-> h]
        PROVE  /\ shutdown' \in [state : States, error : Errors \cup {NoError}]
               /\ shutdown'.error = NoError => wg' = NoGroup
               /\ shutdown'.error \in ShutdownHooks
    <3>1. h \in Errors /\ h # NoError
      BY DEF ShutdownHooks, Errors, Hooks, NoError
    <3>2. QED
      BY <2>2, <3>1 DEF IInv, TypeOK
  <2>3. QED
    BY <2>1, <2>2 DEF ShutdownWorkerGroup
<1>3. wg' \in [status : {"none", "active", "inactive"}, size : Nat,
               failing : {"none", "some", "all"}]
  BY <1>2 DEF NoGroup, AfterFailedShutdown, IInv, TypeOK
<1>4. TypeOK'
  BY <1>1, <1>2, <1>3 DEF IInv, TypeOK
<1>5. Budget(state)' /\ ShutdownBudget'
  BY <1>1 DEF IInv, Budget, ShutdownBudget
<1>6. QED
  BY <1>1, <1>2, <1>4, <1>5 DEF IInv, TaskMatchesState, GroupMatchesState,
     DrainedGroup, NoGroup

(* The terminal state that a shutdown ends in, within the budget of the run. *)
LEMMA CompleteShutdownTarget ==
  ASSUME IInv, task = "draining",
         NEW h \in {NoError} \cup (FailingHooks \cap {"before_controller_shutdown"}),
         NEW s, s = IF ShutdownError(h) = NoError \/ shutdown.state.next = "ERRORED"
                    THEN NextState(shutdown.state) ELSE Errored(ShutdownError(h))
  PROVE  /\ s \in States /\ s.type \in {"FINISHED", "ERRORED"} /\ Budget(s)
         /\ s.type = "FINISHED" => wg.status = "none"
<1>1. /\ shutdown.state \in States /\ shutdown.state.type = "SHUTTING_DOWN"
      /\ Budget(shutdown.state)
      /\ ShutdownError(h) \in Errors \cup {NoError}
      /\ shutdown.state.error \in Errors \cup {NoError}
  BY FatalErrors DEF IInv, TypeOK, TaskMatchesState, ShutdownBudget, ShutdownError, States
<1>2. CASE shutdown.state.next = "ERRORED"
  <2>1. s = Errored(shutdown.state.error)
    BY <1>2 DEF NextState
  <2>2. s \in States /\ s.type = "ERRORED" /\ s.error = shutdown.state.error
    BY <1>1, <2>1 DEF Errored, MakeState, States, StateTypes
  <2>3. QED
    BY <1>1, <1>2, <2>2 DEF Budget, GivesUp, ShuttingDownToErrored
<1>3. CASE shutdown.state.next # "ERRORED" /\ ShutdownError(h) = NoError
  <2>1. s = Finished
    BY <1>3 DEF NextState
  <2>2. s \in States /\ s.type = "FINISHED" /\ s.error = NoError
    BY <2>1, ConstructorTypes DEF Finished, MakeState
  <2>3. wg.status = "none"
    BY <1>3 DEF ShutdownError, IInv, DrainedGroup
  <2>4. QED
    BY <1>1, <1>3, <2>2, <2>3 DEF Budget, GivesUp, ShuttingDownToErrored
<1>4. CASE shutdown.state.next # "ERRORED" /\ ShutdownError(h) # NoError
  <2>1. s = Errored(ShutdownError(h)) /\ ShutdownError(h) \in Errors
    BY <1>1, <1>4
  <2>2. s \in States /\ s.type = "ERRORED" /\ s.error = ShutdownError(h)
    BY <2>1, ConstructorTypes DEF Errored, MakeState
  <2>3. ShutdownError(h) \notin {"worker", "startup"}
    BY <1>4, FatalErrors DEF ShutdownError, IInv, DrainedGroup, ShutdownHooks, NoError
  <2>4. QED
    BY <2>2, <2>3 DEF Budget, GivesUp, ShuttingDownToErrored
<1>5. QED
  BY <1>2, <1>3, <1>4

(* The end of a shutdown keeps the invariant. *)
LEMMA CompleteShutdownStep ==
  ASSUME IInv, CompleteShutdown PROVE IInv'
<1>1. PICK h \in {NoError} \cup (FailingHooks \cap {"before_controller_shutdown"}) :
        Continue(IF ShutdownError(h) = NoError \/ shutdown.state.next = "ERRORED"
                 THEN NextState(shutdown.state) ELSE Errored(ShutdownError(h)))
  BY DEF CompleteShutdown
<1> DEFINE s == IF ShutdownError(h) = NoError \/ shutdown.state.next = "ERRORED"
                THEN NextState(shutdown.state) ELSE Errored(ShutdownError(h))
<1>2. /\ s \in States /\ s.type \in {"FINISHED", "ERRORED"} /\ Budget(s)
      /\ s.type = "FINISHED" => wg.status = "none"
  BY CompleteShutdownTarget DEF CompleteShutdown
<1>3. Continue(s) /\ UNCHANGED <<wg, failures, attempt, polled, shutdown, abort, exiting>>
  BY <1>1 DEF CompleteShutdown
<1> HIDE DEF s
<1>4. /\ state' \in States /\ task' = "loop" /\ Budget(state)'
      /\ state' = s \/ ShuttingDownToErrored(state')
  BY <1>2, <1>3, ContinueOutcome
<1>5. TypeOK'
  BY <1>3, <1>4 DEF IInv, TypeOK
<1>6. QED
  BY <1>2, <1>3, <1>4, <1>5 DEF IInv, TaskMatchesState, GroupMatchesState, DrainedGroup,
     ShutdownBudget, ShuttingDownToErrored

(* Steps that move run() or abort() along and touch nothing else. *)
LEMMA ControlStep ==
  ASSUME IInv,
         UNCHANGED <<state, wg, failures, attempt, polled, shutdown>>,
         abort' \in {"none", "pending", "served"}, exiting' \in BOOLEAN,
         exiting => exiting',
         \/ UNCHANGED task
         \/ task' = "loop" /\ task = "created"
         \/ task' = "sleeping" /\ state.type = "RUNNING" /\ task = "loop"
         \/ task' = "returned" /\ IsTerminal(state)
         \/ task' = "exited" /\ exiting
  PROVE  IInv'
<1>1. task' \in {"created", "loop", "sleeping", "draining", "returned", "exited"}
  BY DEF IInv, TypeOK
<1>2. TypeOK'
  BY <1>1 DEF IInv, TypeOK
<1>3. TaskMatchesState' /\ GroupMatchesState'
  BY DEF IInv, TaskMatchesState, GroupMatchesState, IsTerminal
<1>4. DrainedGroup' /\ ShutdownBudget' /\ Budget(state)'
  BY DEF IInv, DrainedGroup, ShutdownBudget, Budget
<1>5. QED
  BY <1>2, <1>3, <1>4 DEF IInv

(* abort() keeps the invariant wherever run() is suspended. *)
LEMMA AbortStepKeepsIInv ==
  ASSUME IInv, Abort PROVE IInv'
<1>1. /\ EventLoopFree /\ ~IsTerminal(state) /\ abort' = "served" /\ exiting' = TRUE
      /\ UNCHANGED <<failures, attempt, polled, task, shutdown>>
  BY DEF Abort, AbortGroupAndExit
<1>2. SetState(Aborted) = {Aborted}
  BY DEF SetState, Aborted, MakeState, IsTerminal
<1>3. CASE UNCHANGED <<state, wg>>
  BY <1>1, <1>3, ControlStep DEF IInv, TypeOK
<1>4. CASE wg.status = "active" /\ wg' = [wg EXCEPT !.status = "inactive"] /\ UNCHANGED state
  <2>1. /\ wg' \in [status : {"none", "active", "inactive"}, size : Nat,
                    failing : {"none", "some", "all"}]
        /\ wg'.status = "inactive"
    BY <1>4 DEF IInv, TypeOK
  <2>2. TypeOK'
    BY <1>1, <1>4, <2>1 DEF IInv, TypeOK
  <2>3. task # "created" /\ task \in {"sleeping", "draining", "returned"}
    BY <1>1, <1>4 DEF EventLoopFree, IInv, TaskMatchesState, NoGroup
  <2>4. state.type \in {"RUNNING", "SHUTTING_DOWN"}
    BY <1>1, <2>3 DEF IInv, TaskMatchesState, IsTerminal
  <2>5. QED
    BY <1>1, <1>4, <2>1, <2>2, <2>3, <2>4 DEF IInv, TaskMatchesState, GroupMatchesState,
       DrainedGroup, ShutdownBudget, Budget, IsTerminal
<1>5. CASE /\ state' = Aborted
           /\ \/ wg.status = "active" /\ wg' = [wg EXCEPT !.status = "inactive"]
              \/ wg.status = "none" /\ UNCHANGED wg
  <2>1. state' \in States /\ state'.type = "ABORTED"
    BY <1>5, ConstructorTypes DEF Aborted, MakeState
  <2>2. wg' \in [status : {"none", "active", "inactive"}, size : Nat,
                 failing : {"none", "some", "all"}]
    BY <1>5 DEF IInv, TypeOK
  <2>3. TypeOK'
    BY <1>1, <2>1, <2>2 DEF IInv, TypeOK
  <2>4. task = "created" => UNCHANGED wg
    BY <1>5 DEF IInv, TaskMatchesState, NoGroup
  <2>5. TaskMatchesState'
    BY <1>1, <2>1, <2>4 DEF IInv, TaskMatchesState, IsTerminal
  <2>6. DrainedGroup'
    BY <1>1, <1>5 DEF IInv, DrainedGroup
  <2>7. Budget(state)' /\ ShutdownBudget'
    BY <1>1, <2>1 DEF IInv, Budget, ShutdownBudget, GivesUp, ShuttingDownToErrored
  <2>8. QED
    BY <2>1, <2>3, <2>5, <2>6, <2>7 DEF IInv, GroupMatchesState
<1>6. QED
  BY <1>2, <1>3, <1>4, <1>5 DEF Abort, AbortGroupAndExit

(* Every step of the controller keeps the invariant. *)
LEMMA NextIInv ==
  ASSUME IInv, [Next]_vars PROVE IInv'
<1>1. CASE StartRun
  BY <1>1, ControlStep DEF StartRun, IInv, TypeOK
<1>2. CASE PollSleep
  BY <1>2, ControlStep DEF PollSleep, Iteration, IInv, TypeOK
<1>3. CASE PollAfterAbort
  BY <1>3, ControlStep DEF PollAfterAbort, IInv, TypeOK
<1>4. CASE FinishRun
  BY <1>4, ControlStep DEF FinishRun, IInv, TypeOK
<1>5. CASE RequestAbort
  BY <1>5, ControlStep DEF RequestAbort, IInv, TypeOK
<1>6. CASE AbortWhenTerminal
  BY <1>6, ControlStep DEF AbortWhenTerminal, IInv, TypeOK
<1>7. CASE ProcessExit
  BY <1>7, ControlStep DEF ProcessExit, IInv, TypeOK
<1>8. CASE UNCHANGED vars
  BY <1>8, ControlStep DEF vars, IInv, TypeOK
<1>9. QED
  BY <1>1, <1>2, <1>3, <1>4, <1>5, <1>6, <1>7, <1>8, MakeScalingDecisionStep,
     ResizeHookFailsStep, ReplaceBadWorkersStep, RestartWorkerGroupStep, PollFailsStep,
     PollFindsErrorsStep, PollFindsHealthyStep, ResizeStep, ShutdownRaisesStep,
     ShutdownWorkerGroupStep, CompleteShutdownStep, AbortStepKeepsIInv
     DEF Next, RunStep, AbortStep, Terminated

(* The inductive invariant holds throughout a run. *)
THEOREM Invariance == Spec => []IInv
  BY InitIInv, NextIInv, PTL DEF Spec

-----------------------------------------------------------------------------
(* The invariants of the controller. *)

(* Type correctness: every attribute keeps its shape. *)
THEOREM TypeCorrectness == Spec => []TypeOK
  BY Invariance, PTL DEF IInv

(* The controller never uses a worker group that is missing or shut down. *)
THEOREM GroupUsability == Spec => []GroupIsUsable
<1>1. IInv => GroupIsUsable
  BY DEF IInv, GroupMatchesState, GroupIsUsable
<1>2. QED
  BY <1>1, Invariance, PTL

(* Retries stay within the limits, and no retryable error is given up early. *)
THEOREM RetryBudgetHolds == Spec => []RetryBudget
<1>1. IInv => RetryBudget
  BY DEF IInv, Budget, RetryBudget
<1>2. QED
  BY <1>1, Invariance, PTL

(* A run that reports FINISHED holds no worker group. *)
THEOREM FinishedReleases == Spec => []FinishedReleasesWorkers
<1>1. IInv => FinishedReleasesWorkers
  BY DEF IInv, GroupMatchesState, FinishedReleasesWorkers
<1>2. QED
  BY <1>1, Invariance, PTL

(* Only an iteration of the loop, a poll, a shutdown or an abort changes the state. *)
LEMMA StateChanges ==
  ASSUME IInv, [Next]_vars, state' # state
  PROVE  \/ ~IsTerminal(state)
         \/ state.type = "ABORTED" /\ task = "draining"
<1>1. ASSUME Polling PROVE ~IsTerminal(state)
  BY <1>1, PollingRuns DEF IsTerminal
<1>2. ASSUME CompleteShutdown
      PROVE  ~IsTerminal(state) \/ (state.type = "ABORTED" /\ task = "draining")
  BY <1>2 DEF CompleteShutdown, IInv, TaskMatchesState, IsTerminal
<1>3. ASSUME NEW types, Iteration(types),
             types \cap {"ERRORED", "FINISHED", "ABORTED"} = {}
      PROVE  ~IsTerminal(state)
  BY <1>3 DEF Iteration, IsTerminal
<1>4. CASE RunStep
  BY <1>1, <1>2, <1>3, <1>4 DEF RunStep, StartRun, MakeScalingDecision, ResizeHookFails,
     ReplaceBadWorkers, RestartWorkerGroup, PollSleep, PollAfterAbort, PollFails,
     PollFindsErrors, PollFindsHealthy, Resize, ShutdownRaises, ShutdownWorkerGroup,
     FinishRun
<1>5. CASE RequestAbort \/ AbortStep \/ ProcessExit \/ Terminated \/ UNCHANGED vars
  BY <1>5 DEF RequestAbort, AbortStep, AbortWhenTerminal, Abort, AbortGroupAndExit,
              ProcessExit, Terminated, vars
<1>6. QED
  BY <1>4, <1>5 DEF Next

(* The outcome that run() reports is never revised. *)
THEOREM ResultFinality == Spec => ResultIsFinal
<1>1. IInv /\ [Next]_vars => [state.type \in {"FINISHED", "ERRORED"} => state' = state]_vars
  BY StateChanges DEF IsTerminal
<1>2. QED
  BY <1>1, Invariance, PTL DEF Spec, ResultIsFinal

-----------------------------------------------------------------------------
(***************************************************************************)
(* No two worker groups train under one attempt id: an id that was used is *)
(* replaced before the controller schedules again.                         *)
(***************************************************************************)
ScheduledFresh == state.type \in {"SCHEDULING", "RESCHEDULING"} => attempt = "fresh"

(* A failing iteration schedules again only from SCHEDULING. *)
LEMMA FailSchedules ==
  ASSUME IInv, NEW e, Fail(e), state'.type \in {"SCHEDULING", "RESCHEDULING"}
  PROVE  state.type = "SCHEDULING"
<1>1. \A x : ShuttingDown(Errored(x)).type = "SHUTTING_DOWN"
  BY DEF ShuttingDown, MakeState
<1>2. state' = GetRetryState(state, e)
  BY <1>1, FailOutcome
<1>3. QED
  BY <1>1, <1>2 DEF GetRetryState, Restarting, MakeState

(* Every step keeps the attempt id fresh while the controller schedules. *)
LEMMA NextScheduledFresh ==
  ASSUME IInv, ScheduledFresh, [Next]_vars PROVE ScheduledFresh'
<1> SUFFICES ASSUME state'.type \in {"SCHEDULING", "RESCHEDULING"} PROVE attempt' = "fresh"
  BY DEF ScheduledFresh
<1>1. \A s : /\ Continue(s) => state' = s
             /\ Continue(s) => s.type \in {"SCHEDULING", "RESCHEDULING"}
  BY SetStateOutcome DEF Continue, ShuttingDown, MakeState
<1>2. CASE MakeScalingDecision
  BY <1>1, <1>2 DEF MakeScalingDecision, CurrentAttempt, NeedsNewRunAttempt, Iteration,
     ScheduledFresh
<1>3. CASE Resize
  BY <1>3 DEF Resize, CurrentAttempt, NeedsNewRunAttempt, Iteration
<1>4. ASSUME NEW e, Fail(e), UNCHANGED attempt PROVE attempt' = "fresh"
  BY <1>4, FailSchedules DEF ScheduledFresh
<1>5. ~Continue(Running)
  BY <1>1 DEF Running, MakeState
<1>6. CASE ResizeHookFails \/ ReplaceBadWorkers \/ RestartWorkerGroup \/ PollFails
           \/ PollFindsErrors \/ ShutdownRaises
  BY <1>4, <1>5, <1>6 DEF ResizeHookFails, ReplaceBadWorkers, RestartWorkerGroup, PollFails,
     PollFindsErrors, ShutdownRaises, Raise
<1>7. ~PollFindsHealthy
  BY <1>1 DEF PollFindsHealthy, ShuttingDown, Running, Resizing, MakeState
<1>8. ~CompleteShutdown
  BY <1>1 DEF CompleteShutdown, NextState, Errored, Finished, MakeState
<1>9. CASE Abort
  BY <1>9 DEF Abort, AbortGroupAndExit, SetState, Aborted, MakeState, IsTerminal, ScheduledFresh
<1>10. CASE StartRun \/ PollSleep \/ PollAfterAbort \/ ShutdownWorkerGroup \/ FinishRun
            \/ RequestAbort \/ AbortWhenTerminal \/ ProcessExit \/ UNCHANGED vars
  BY <1>10 DEF StartRun, PollSleep, PollAfterAbort, ShutdownWorkerGroup, FinishRun,
     RequestAbort, AbortWhenTerminal, ProcessExit, vars, ScheduledFresh
<1>11. QED
  BY <1>2, <1>3, <1>6, <1>7, <1>8, <1>9, <1>10 DEF Next, RunStep, AbortStep, Terminated

(* A worker group is only started under an attempt id no other group trained under. *)
THEOREM FreshAttempts == Spec => FreshAttempt
<1>1. Init => ScheduledFresh
  BY DEF Init, ScheduledFresh
<1>2. IInv /\ ScheduledFresh /\ [Next]_vars => ScheduledFresh'
  BY NextScheduledFresh
<1>3. ScheduledFresh =>
        [(state.type = "SCHEDULING" /\ wg'.status = "active" /\ wg' # wg)
            => attempt = "fresh"]_vars
  BY DEF ScheduledFresh
<1>4. QED
  BY <1>1, <1>2, <1>3, Invariance, PTL DEF Spec, FreshAttempt

-----------------------------------------------------------------------------
(***************************************************************************)
(* If after_worker_group_shutdown never raises, only abort() leaves a      *)
(* group inactive behind, and the error that ended the run survives.       *)
(***************************************************************************)
InactiveExits == wg.status = "inactive" => exiting

(* Every step keeps an inactive group a sign of the exit. *)
LEMMA NextInactiveExits ==
  ASSUME IInv, InactiveExits, [Next]_vars,
         "after_worker_group_shutdown" \notin FailingHooks
  PROVE  InactiveExits'
<1>1. \A h \in FailingHooks : AfterFailedShutdown(h) = wg
  BY DEF AfterFailedShutdown
<1>2. CASE ShutdownWorkerGroup \/ RestartWorkerGroup
  BY <1>1, <1>2 DEF ShutdownWorkerGroup, RestartWorkerGroup, Raise, NoGroup, InactiveExits
<1>3. CASE PollFindsErrors \/ PollFindsHealthy
  <2>1. wg'.status = wg.status
    BY <1>3 DEF PollFindsErrors, PollFindsHealthy, IInv, TypeOK
  <2>2. QED
    BY <1>3, <2>1 DEF PollFindsErrors, PollFindsHealthy, InactiveExits
<1>4. CASE PollAfterAbort \/ Abort
  BY <1>4 DEF PollAfterAbort, Abort, AbortGroupAndExit, InactiveExits
<1>5. CASE StartRun \/ MakeScalingDecision \/ ResizeHookFails \/ ReplaceBadWorkers
           \/ PollSleep \/ PollFails \/ Resize \/ ShutdownRaises \/ CompleteShutdown
           \/ FinishRun \/ RequestAbort \/ AbortWhenTerminal \/ ProcessExit
           \/ UNCHANGED vars
  BY <1>5 DEF StartRun, MakeScalingDecision, ResizeHookFails, ReplaceBadWorkers, PollSleep,
     PollFails, Resize, ShutdownRaises, CompleteShutdown, FinishRun, RequestAbort,
     AbortWhenTerminal, ProcessExit, vars, InactiveExits
<1>6. QED
  BY <1>2, <1>3, <1>4, <1>5 DEF Next, RunStep, AbortStep, Terminated

(* A shutdown for an error that nothing interrupts ends in that error. *)
LEMMA NextKeepsCause ==
  ASSUME IInv, InactiveExits, [Next]_vars, ShuttingDownToErrored(state)
  PROVE  exiting' \/ state'.error = state.error
<1>1. state.type = "SHUTTING_DOWN" /\ state.next = "ERRORED"
  BY DEF ShuttingDownToErrored
<1>2. ~Polling
  BY <1>1, PollingRuns
<1>3. CASE ShutdownRaises
  BY <1>3 DEF ShutdownRaises, InactiveExits
<1>4. CASE CompleteShutdown
  <2>1. shutdown.state = state
    BY <1>1, <1>4 DEF CompleteShutdown, IInv, TaskMatchesState
  <2>2. Continue(Errored(state.error))
    BY <1>1, <1>4, <2>1 DEF CompleteShutdown, NextState
  <2>3. IsTerminal(Errored(state.error)) /\ Errored(state.error).error = state.error
    BY DEF IsTerminal, Errored, MakeState
  <2>4. QED
    BY <2>2, <2>3, SetStateOutcome DEF Continue
<1>5. CASE RunStep /\ ~ShutdownRaises /\ ~CompleteShutdown
  BY <1>1, <1>2, <1>5 DEF RunStep, StartRun, MakeScalingDecision, ResizeHookFails,
     ReplaceBadWorkers, RestartWorkerGroup, PollSleep, PollAfterAbort, PollFails,
     PollFindsErrors, PollFindsHealthy, Resize, ShutdownWorkerGroup, FinishRun, Iteration
<1>6. CASE RequestAbort \/ AbortStep \/ ProcessExit \/ Terminated \/ UNCHANGED vars
  BY <1>6 DEF RequestAbort, AbortStep, AbortWhenTerminal, Abort, AbortGroupAndExit,
              ProcessExit, Terminated, vars
<1>7. QED
  BY <1>3, <1>4, <1>5, <1>6 DEF Next

(* The error that ended the run is the error it reports. *)
THEOREM RootCausePreservation ==
  ASSUME "after_worker_group_shutdown" \notin FailingHooks
  PROVE  Spec => RootCausePreserved
<1>1. Init => InactiveExits
  BY DEF Init, InactiveExits, NoGroup
<1>2. IInv /\ InactiveExits /\ [Next]_vars => InactiveExits'
  BY NextInactiveExits
<1>3. IInv /\ InactiveExits /\ [Next]_vars =>
        [ShuttingDownToErrored(state) => exiting' \/ state'.error = state.error]_vars
  BY NextKeepsCause
<1>4. QED
  BY <1>1, <1>2, <1>3, Invariance, PTL DEF Spec, RootCausePreserved

-----------------------------------------------------------------------------
(* The refinement: every behaviour of TrainController is, under the        *)
(* mapping of ControllerRefinement, a behaviour of TrainingRun, if         *)
(* after_worker_group_shutdown does not raise (a hook that does leaves an  *)
(* inactive group behind, whose truth value replaces the outcome of the    *)
(* run).  The fairness of the abstract specification is left to TLC.       *)

(* Only abort() makes a run ABORTED, and the actor exits with it. *)
AbortedExits == state.type = "ABORTED" => exiting

(* A shutdown leads to one of the two outcomes. *)
ShutdownHasTarget ==
  state.type = "SHUTTING_DOWN" => state.next \in {"ERRORED", "FINISHED"}

(* What the mapping needs to know of a state of the controller. *)
RInv == IInv /\ InactiveExits /\ AbortedExits /\ ShutdownHasTarget

(* The types of the states in which the run goes on. *)
LiveTypes == {"INITIALIZING", "SCHEDULING", "RESCHEDULING", "RUNNING",
              "RESTARTING", "RESIZING"}

(* The run closes for a cause. *)
Closes(s) ==
  \/ s = ShuttingDown(Finished)
  \/ \E e \in Errors : s = ShuttingDown(Errored(e))

-----------------------------------------------------------------------------
(* The mapping, case by case. *)

(* A process that is gone reports nothing and holds nothing. *)
LEMMA GoneBar ==
  ASSUME task = "exited"
  PROVE  stageBar = "gone" /\ outcomeBar = "none" /\ causeBar = NoError /\ heldBar = FALSE
  BY DEF stageBar, outcomeBar, causeBar, heldBar, Visible

(* Nothing of an actor that is about to exit is seen. *)
LEMMA ExitingBar ==
  ASSUME task # "exited", exiting
  PROVE  stageBar = "exiting" /\ outcomeBar = "none" /\ causeBar = NoError /\ heldBar = FALSE
  BY DEF stageBar, outcomeBar, causeBar, heldBar, Visible

(* A run that goes on has no outcome yet. *)
LEMMA WorkingBar ==
  ASSUME Visible, state.type \in LiveTypes
  PROVE  /\ stageBar = "working" /\ outcomeBar = "none" /\ causeBar = NoError
         /\ heldBar = (wg.status = "active")
  BY DEF stageBar, outcomeBar, causeBar, heldBar, Visible, LiveTypes, IsTerminal,
         Succeeds, GivesUp, ShuttingDownToErrored

(* A run that shuts down has the outcome it shuts down for. *)
LEMMA ClosingBar ==
  ASSUME Visible, state.type = "SHUTTING_DOWN"
  PROVE  /\ stageBar = "closing"
         /\ outcomeBar = IF state.next = "FINISHED" THEN "finished"
                         ELSE IF state.next = "ERRORED" THEN "errored" ELSE "none"
         /\ causeBar = IF state.next = "ERRORED" THEN state.error ELSE NoError
         /\ heldBar = (wg.status = "active")
  BY DEF stageBar, outcomeBar, causeBar, heldBar, Visible, IsTerminal,
         Succeeds, GivesUp, ShuttingDownToErrored

(* A run that has ended reports its outcome. *)
LEMMA ClosedBar ==
  ASSUME Visible, state.type \in {"FINISHED", "ERRORED"}
  PROVE  /\ stageBar = "closed"
         /\ outcomeBar = IF state.type = "FINISHED" THEN "finished" ELSE "errored"
         /\ causeBar = IF state.type = "ERRORED" THEN state.error ELSE NoError
         /\ heldBar = (wg.status = "active")
  BY DEF stageBar, outcomeBar, causeBar, heldBar, Visible, IsTerminal,
         Succeeds, GivesUp, ShuttingDownToErrored

-----------------------------------------------------------------------------
(* The initial states. *)

(* A run starts working, or closes at once because after_controller_start raised. *)
LEMMA InitRefines == Init => Run!Init
<1> SUFFICES ASSUME Init PROVE Run!Init
  OBVIOUS
<1>1. Visible /\ wg.status = "none"
  BY DEF Init, Visible, NoGroup
<1>2. CASE state = Initializing
  <2>1. state.type \in LiveTypes
    BY <1>2 DEF Initializing, MakeState, LiveTypes
  <2>2. QED
    BY <1>1, <2>1, WorkingBar DEF Run!Init
<1>3. CASE \E h \in FailingHooks : state = ShuttingDown(Errored(h))
  <2>1. PICK h \in FailingHooks : state = ShuttingDown(Errored(h))
    BY <1>3
  <2>2. /\ state.type = "SHUTTING_DOWN" /\ state.next = "ERRORED"
        /\ state.error = h /\ h \in Errors
    BY <2>1, FatalErrors DEF ShuttingDown, Errored, MakeState
  <2>3. QED
    BY <1>1, <2>2, ClosingBar DEF Run!Init
<1>4. QED
  BY <1>2, <1>3 DEF Init, HookFailure, ExecuteFailureDecision

-----------------------------------------------------------------------------
(* The steps that keep the run working or close it. *)

(* However an iteration fails, the run goes on or closes for an error. *)
LEMMA FailGoesOnOrCloses ==
  ASSUME NEW e \in Errors, Fail(e)
  PROVE  state'.type \in LiveTypes \/ Closes(state')
<1>1. FailingHooks \subseteq Errors
  BY FatalErrors
<1>2. CASE state' = GetRetryState(state, e)
  <2>1. GetRetryState(state, e) \in {Restarting(e), Rescheduling(e), ShuttingDown(Errored(e))}
    BY DEF GetRetryState
  <2>2. Restarting(e).type \in LiveTypes /\ Rescheduling(e).type \in LiveTypes
    BY DEF Restarting, Rescheduling, MakeState, LiveTypes
  <2>3. QED
    BY <1>2, <2>1, <2>2 DEF Closes
<1>3. QED
  BY <1>1, <1>2, FailOutcome DEF Closes

(* However an iteration that ends in a live state ends, the run goes on or closes. *)
LEMMA ContinueGoesOnOrCloses ==
  ASSUME NEW s, Continue(s), s.type \in LiveTypes \/ Closes(s)
  PROVE  state'.type \in LiveTypes \/ Closes(state')
  BY SetStateOutcome, FatalErrors DEF Continue, Closes

(* An iteration in a live state is Work, Close or a stuttering step. *)
LEMMA LiveStepRefines ==
  ASSUME Visible, Visible', state.type \in LiveTypes,
         state'.type \in LiveTypes \/ Closes(state')
  PROVE  [Run!Next]_(Run!vars)
<1>1. /\ stageBar = "working" /\ outcomeBar = "none" /\ causeBar = NoError
      /\ heldBar \in BOOLEAN
  BY WorkingBar
<1>2. CASE state'.type \in LiveTypes
  <2>1. /\ stageBar' = "working" /\ outcomeBar' = "none" /\ causeBar' = NoError
        /\ heldBar' \in BOOLEAN
    <3>1. stageBar' = "working" /\ outcomeBar' = "none" /\ causeBar' = NoError
      BY <1>2 DEF stageBar, outcomeBar, causeBar, heldBar, Visible, LiveTypes, IsTerminal,
         Succeeds, GivesUp, ShuttingDownToErrored, NoError
    <3>2. QED
      BY <3>1 DEF heldBar, Visible
  <2>2. QED
    BY <1>1, <2>1 DEF Run!Next, Run!Work
<1>3. CASE Closes(state')
  <2>1. /\ stageBar' = "closing" /\ heldBar' \in BOOLEAN
        /\ <<outcomeBar', causeBar'>> \in Run!Outcomes
    <3>1. CASE state' = ShuttingDown(Finished)
      BY <3>1 DEF stageBar, outcomeBar, causeBar, heldBar, Visible, IsTerminal, Succeeds,
         GivesUp, ShuttingDownToErrored, NoError, ShuttingDown, Finished, MakeState,
         Run!Outcomes
    <3>2. ASSUME NEW e \in Errors, state' = ShuttingDown(Errored(e))
          PROVE  /\ stageBar' = "closing" /\ heldBar' \in BOOLEAN
                 /\ <<outcomeBar', causeBar'>> \in Run!Outcomes
      BY <3>2 DEF stageBar, outcomeBar, causeBar, heldBar, Visible, IsTerminal, Succeeds,
         GivesUp, ShuttingDownToErrored, NoError, ShuttingDown, Errored, MakeState,
         Run!Outcomes
    <3>3. QED
      BY <1>3, <3>1, <3>2 DEF Closes
  <2>2. QED
    BY <1>1, <2>1 DEF Run!Next, Run!Close
<1>4. QED
  BY <1>2, <1>3

(* Every iteration of the loop in a live state refines. *)
LEMMA RunningStepRefines ==
  ASSUME RInv, Visible, Visible',
         \/ MakeScalingDecision \/ ResizeHookFails \/ ReplaceBadWorkers
         \/ RestartWorkerGroup \/ PollFails \/ PollFindsErrors
         \/ PollFindsHealthy \/ Resize
  PROVE  [Run!Next]_(Run!vars)
<1> USE DEF LiveTypes
<1>1. state.type \in LiveTypes
  <2>1. ASSUME Polling PROVE state.type \in LiveTypes
    BY <2>1, PollingRuns DEF RInv
  <2>2. QED
    BY <2>1 DEF MakeScalingDecision, ResizeHookFails, ReplaceBadWorkers,
       RestartWorkerGroup, PollFails, PollFindsErrors, PollFindsHealthy, Resize, Iteration
<1>2. /\ \A n : Scheduling(n).type \in LiveTypes /\ Resizing(n).type \in LiveTypes
      /\ Running.type \in LiveTypes
      /\ Closes(ShuttingDown(Finished))
  BY DEF Scheduling, Resizing, Running, MakeState, Closes
<1>3. /\ FailingHooks \subseteq Errors
      /\ {"worker", "startup", "launch", "inactive"} \subseteq Errors
  BY FatalErrors DEF Errors
<1>4. (\E e \in Errors : Fail(e)) \/
      (\E s : Continue(s) /\ (s.type \in LiveTypes \/ Closes(s)))
  BY <1>1, <1>2, <1>3 DEF MakeScalingDecision, ResizeHookFails, ReplaceBadWorkers,
     RestartWorkerGroup, PollFails, PollFindsErrors, PollFindsHealthy, Resize, Raise
<1>5. QED
  BY <1>1, <1>4, FailGoesOnOrCloses, ContinueGoesOnOrCloses, LiveStepRefines

-----------------------------------------------------------------------------
(* The steps of a run that closes. *)

(* Shutting the worker group down releases the workers, or a hook keeps them. *)
LEMMA ShutdownWorkerGroupRefines ==
  ASSUME RInv, ShutdownWorkerGroup, Visible, Visible',
         "after_worker_group_shutdown" \notin FailingHooks
  PROVE  [Run!Next]_(Run!vars)
<1>1. state.type = "SHUTTING_DOWN" /\ state' = state
  BY DEF ShutdownWorkerGroup, Iteration
<1>2. stageBar = "closing" /\ UNCHANGED <<stageBar, outcomeBar, causeBar>>
  BY <1>1, ClosingBar DEF stageBar, outcomeBar, causeBar, Visible, IsTerminal
<1>3. wg' = wg \/ wg'.status = "none"
  BY DEF ShutdownWorkerGroup, AfterFailedShutdown, NoGroup
<1>4. CASE wg' = wg
  BY <1>2, <1>4 DEF heldBar, Visible, Run!vars
<1>5. CASE wg'.status = "none"
  BY <1>2, <1>5 DEF heldBar, Run!Next, Run!Release
<1>6. QED
  BY <1>3, <1>4, <1>5

(***************************************************************************)
(* The shutdown ends in the outcome it was entered for; only a success is  *)
(* turned into the error of a hook, and success needs a released group.    *)
(***************************************************************************)
LEMMA CompleteShutdownRefines ==
  ASSUME RInv, CompleteShutdown, Visible, Visible'
  PROVE  [Run!Next]_(Run!vars)
<1>1. /\ task = "draining" /\ state = shutdown.state
      /\ state.type = "SHUTTING_DOWN" /\ UNCHANGED wg
  BY DEF RInv, AbortedExits, CompleteShutdown, IInv, TaskMatchesState, Visible
<1>2. PICK h \in {NoError} \cup (FailingHooks \cap {"before_controller_shutdown"}) :
        Continue(IF ShutdownError(h) = NoError \/ shutdown.state.next = "ERRORED"
                 THEN NextState(shutdown.state) ELSE Errored(ShutdownError(h)))
  BY DEF CompleteShutdown
<1>3. state' = IF ShutdownError(h) = NoError \/ state.next = "ERRORED"
               THEN NextState(state) ELSE Errored(ShutdownError(h))
  <2>1. IsTerminal(NextState(state)) /\ \A e : IsTerminal(Errored(e))
    BY DEF NextState, Errored, Finished, MakeState, IsTerminal
  <2>2. QED
    BY <1>1, <1>2, <2>1, SetStateOutcome DEF Continue
<1>4. stageBar = "closing" /\ UNCHANGED heldBar
  BY <1>1, ClosingBar DEF heldBar, Visible
<1>5. CASE state.next = "ERRORED"
  <2>1. state' = Errored(state.error)
    BY <1>3, <1>5 DEF NextState
  <2>2. stageBar' = "closed" /\ outcomeBar' = "errored" /\ causeBar' = state.error
    BY <2>1 DEF stageBar, outcomeBar, causeBar, Visible, IsTerminal, Succeeds, GivesUp,
       Errored, MakeState, ShuttingDownToErrored
  <2>3. outcomeBar = "errored" /\ causeBar = state.error
    BY <1>1, <1>5, ClosingBar
  <2>4. QED
    BY <1>4, <2>2, <2>3 DEF Run!Next, Run!Conclude
<1>6. CASE state.next # "ERRORED" /\ ShutdownError(h) = NoError
  <2>1. state' = Finished /\ wg.status = "none"
    BY <1>1, <1>3, <1>6 DEF NextState, ShutdownError, RInv, IInv, DrainedGroup
  <2>2. stageBar' = "closed" /\ outcomeBar' = "finished" /\ causeBar' = NoError
    BY <2>1 DEF stageBar, outcomeBar, causeBar, Visible, IsTerminal, Succeeds, GivesUp,
       Finished, MakeState, ShuttingDownToErrored
  <2>3. outcomeBar = "finished" /\ causeBar = NoError /\ ~heldBar
    BY <1>1, <1>6, <2>1, ClosingBar DEF RInv, ShutdownHasTarget
  <2>4. QED
    BY <1>4, <2>2, <2>3 DEF Run!Next, Run!Conclude
<1>7. CASE state.next # "ERRORED" /\ ShutdownError(h) # NoError
  <2>1. state' = Errored(ShutdownError(h)) /\ ShutdownError(h) \in Errors
    BY <1>1, <1>2, <1>3, <1>7, FatalErrors
       DEF ShutdownError, RInv, IInv, DrainedGroup, ShutdownHooks, Errors, Hooks, NoError
  <2>2. stageBar' = "closed" /\ outcomeBar' = "errored" /\ causeBar' \in Errors
    BY <2>1 DEF stageBar, outcomeBar, causeBar, Visible, IsTerminal, Succeeds, GivesUp,
       Errored, MakeState, ShuttingDownToErrored
  <2>3. outcomeBar = "finished"
    BY <1>1, <1>7, ClosingBar DEF RInv, ShutdownHasTarget
  <2>4. QED
    BY <1>4, <2>2, <2>3 DEF Run!Next, Run!Conclude
<1>8. QED
  BY <1>5, <1>6, <1>7

-----------------------------------------------------------------------------
(* The states of the controller between two steps. *)

(* The ways in which a step of the controller changes its state. *)
LEMMA StateOutcome ==
  ASSUME IInv, [Next]_vars
  PROVE  \/ state' = state
         \/ state'.type \in LiveTypes
         \/ Closes(state')
         \/ state'.type \in {"FINISHED", "ERRORED"}
         \/ state'.type = "ABORTED" /\ exiting'
<1>1. /\ FailingHooks \subseteq Errors
      /\ {"worker", "startup", "launch", "inactive"} \subseteq Errors
  BY FatalErrors DEF Errors
<1>2. CASE MakeScalingDecision
  <2>1. PICK s \in {state} \cup {Scheduling(n) : n \in Sizes} : Continue(s)
    BY <1>2 DEF MakeScalingDecision
  <2>2. s.type \in LiveTypes
    BY <1>2, <2>1 DEF MakeScalingDecision, Iteration, Scheduling, MakeState, LiveTypes
  <2>3. QED
    BY <2>1, <2>2, ContinueGoesOnOrCloses
<1>3. CASE ResizeHookFails \/ PollFails \/ PollFindsErrors \/ ShutdownRaises
  BY <1>1, <1>3, FailGoesOnOrCloses
     DEF ResizeHookFails, PollFails, PollFindsErrors, ShutdownRaises, Raise
<1>4. CASE ReplaceBadWorkers \/ RestartWorkerGroup
  <2>1. Running.type \in LiveTypes
    BY DEF Running, MakeState, LiveTypes
  <2>2. QED
    BY <1>1, <1>4, <2>1, FailGoesOnOrCloses, ContinueGoesOnOrCloses
       DEF ReplaceBadWorkers, RestartWorkerGroup, Raise
<1>5. CASE PollFindsHealthy \/ Resize
  <2>1. /\ \A n : Scheduling(n).type \in LiveTypes /\ Resizing(n).type \in LiveTypes
        /\ Running.type \in LiveTypes
        /\ Closes(ShuttingDown(Finished))
    BY DEF Scheduling, Resizing, Running, MakeState, LiveTypes, Closes
  <2>2. QED
    BY <1>5, <2>1, ContinueGoesOnOrCloses DEF PollFindsHealthy, Resize
<1>6. CASE CompleteShutdown
  <2>1. PICK h \in {NoError} \cup (FailingHooks \cap {"before_controller_shutdown"}) :
          Continue(IF ShutdownError(h) = NoError \/ shutdown.state.next = "ERRORED"
                   THEN NextState(shutdown.state) ELSE Errored(ShutdownError(h)))
    BY <1>6 DEF CompleteShutdown
  <2>2. \A s : s = NextState(shutdown.state) \/ (\E e : s = Errored(e)) =>
          IsTerminal(s) /\ s.type \in {"FINISHED", "ERRORED"}
    BY DEF NextState, Errored, Finished, MakeState, IsTerminal
  <2>3. QED
    BY <2>1, <2>2, SetStateOutcome DEF Continue
<1>7. CASE Abort
  BY <1>7 DEF Abort, AbortGroupAndExit, SetState, Aborted, MakeState, IsTerminal
<1>8. CASE StartRun \/ PollSleep \/ PollAfterAbort \/ ShutdownWorkerGroup \/ FinishRun
           \/ RequestAbort \/ AbortWhenTerminal \/ ProcessExit \/ UNCHANGED vars
  BY <1>8 DEF StartRun, PollSleep, PollAfterAbort, ShutdownWorkerGroup, FinishRun,
     RequestAbort, AbortWhenTerminal, ProcessExit, vars
<1>9. QED
  BY <1>2, <1>3, <1>4, <1>5, <1>6, <1>7, <1>8 DEF Next, RunStep, AbortStep, Terminated

(* An actor that is exiting stays so. *)
LEMMA ExitingStays ==
  ASSUME [Next]_vars, exiting
  PROVE  exiting'
  BY DEF Next, RunStep, AbortStep, Terminated, vars, StartRun, MakeScalingDecision,
     ResizeHookFails, ReplaceBadWorkers, RestartWorkerGroup, PollSleep, PollAfterAbort,
     PollFails, PollFindsErrors, PollFindsHealthy, Resize, ShutdownRaises,
     ShutdownWorkerGroup, CompleteShutdown, FinishRun, RequestAbort, AbortWhenTerminal,
     Abort, AbortGroupAndExit, ProcessExit

(* The invariant of the refinement is inductive. *)
LEMMA NextRInv ==
  ASSUME RInv, [Next]_vars, "after_worker_group_shutdown" \notin FailingHooks
  PROVE  RInv'
<1>1. IInv' /\ InactiveExits'
  BY NextIInv, NextInactiveExits DEF RInv
<1>2. ASSUME Closes(state')
      PROVE  state'.type = "SHUTTING_DOWN" /\ state'.next \in {"ERRORED", "FINISHED"}
  BY <1>2 DEF Closes, ShuttingDown, Errored, Finished, MakeState
<1>3. AbortedExits' /\ ShutdownHasTarget'
  BY <1>2, StateOutcome, ExitingStays
     DEF RInv, AbortedExits, ShutdownHasTarget, LiveTypes
<1>4. QED
  BY <1>1, <1>3 DEF RInv

-----------------------------------------------------------------------------
(* Every step. *)

(* Until the actor exits every step is one of the abstract run or leaves it alone. *)
LEMMA VisibleStepRefines ==
  ASSUME RInv, [Next]_vars, Visible, Visible',
         "after_worker_group_shutdown" \notin FailingHooks
  PROVE  [Run!Next]_(Run!vars)
<1>1. CASE \/ MakeScalingDecision \/ ResizeHookFails \/ ReplaceBadWorkers
           \/ RestartWorkerGroup \/ PollFails \/ PollFindsErrors
           \/ PollFindsHealthy \/ Resize
  BY <1>1, RunningStepRefines
<1>2. CASE ShutdownWorkerGroup
  BY <1>2, ShutdownWorkerGroupRefines
<1>3. CASE CompleteShutdown
  BY <1>3, CompleteShutdownRefines
<1>4. ~ShutdownRaises
  BY DEF ShutdownRaises, RInv, InactiveExits, Visible
<1>5. ~PollAfterAbort /\ ~Abort /\ ~ProcessExit
  BY DEF PollAfterAbort, Abort, AbortGroupAndExit, ProcessExit, Visible
<1>6. CASE StartRun \/ PollSleep \/ FinishRun \/ RequestAbort \/ AbortWhenTerminal
           \/ UNCHANGED vars
  <2>1. UNCHANGED <<state, wg>>
    BY <1>6 DEF StartRun, PollSleep, FinishRun, RequestAbort, AbortWhenTerminal, vars
  <2>2. UNCHANGED stageBar
    BY <2>1 DEF stageBar, Visible
  <2>3. UNCHANGED <<outcomeBar, heldBar>>
    BY <2>1 DEF outcomeBar, heldBar, Visible
  <2>4. QED
    BY <2>1, <2>2, <2>3 DEF causeBar, Run!vars
<1>7. QED
  BY <1>1, <1>2, <1>3, <1>4, <1>5, <1>6 DEF Next, RunStep, AbortStep, Terminated

(* Only abort() takes a run out of the driver's sight, and only an unfinished one. *)
LEMMA InterruptRefines ==
  ASSUME RInv, [Next]_vars, Visible, ~Visible'
  PROVE  [Run!Next]_(Run!vars)
<1>1. Abort \/ PollAfterAbort \/ ProcessExit
  BY DEF Visible, Next, RunStep, AbortStep, Terminated, vars, StartRun,
     MakeScalingDecision, ResizeHookFails, ReplaceBadWorkers, RestartWorkerGroup,
     PollSleep, PollFails, PollFindsErrors, PollFindsHealthy, Resize, ShutdownRaises,
     ShutdownWorkerGroup, CompleteShutdown, FinishRun, RequestAbort, AbortWhenTerminal,
     Fail, Raise, Continue
<1>2. ~PollAfterAbort /\ ~ProcessExit
  BY DEF PollAfterAbort, ProcessExit, Visible, RInv, AbortedExits, IInv,
     TaskMatchesState, IsTerminal
<1>3. ~IsTerminal(state) /\ exiting' /\ task' = task /\ task # "exited"
  BY <1>1, <1>2 DEF Abort, AbortGroupAndExit, Visible
<1>4. stageBar \in {"working", "closing"}
  BY <1>3 DEF stageBar, Visible
<1>5. stageBar' = "exiting" /\ outcomeBar' = "none" /\ causeBar' = NoError /\ heldBar' = FALSE
  BY <1>3 DEF stageBar, outcomeBar, causeBar, heldBar, Visible
<1>6. QED
  BY <1>4, <1>5 DEF Run!Next, Run!Interrupt

(* After that the process vanishes and nothing else is seen. *)
LEMMA HiddenStepRefines ==
  ASSUME RInv, [Next]_vars, ~Visible
  PROVE  [Run!Next]_(Run!vars)
<1>1. CASE task = "exited"
  <2>1. task' = "exited"
    BY <1>1 DEF RInv, IInv, TypeOK, Next, RunStep, AbortStep, Terminated, vars, StartRun,
       MakeScalingDecision, ResizeHookFails, ReplaceBadWorkers, RestartWorkerGroup,
       PollSleep, PollAfterAbort, PollFails, PollFindsErrors, PollFindsHealthy, Resize,
       ShutdownRaises, ShutdownWorkerGroup, CompleteShutdown, FinishRun, RequestAbort,
       AbortWhenTerminal, Abort, AbortGroupAndExit, EventLoopFree, ProcessExit,
       Iteration, Polling
  <2>2. stageBar' = "gone" /\ outcomeBar' = "none" /\ causeBar' = NoError /\ heldBar' = FALSE
    BY <2>1 DEF stageBar, outcomeBar, causeBar, heldBar, Visible
  <2>3. QED
    BY <1>1, <2>2, GoneBar DEF Run!vars
<1>2. CASE task # "exited"
  <2>1. exiting /\ exiting'
    BY <1>2, ExitingStays DEF Visible
  <2>2. /\ stageBar' \in {"exiting", "gone"}
        /\ outcomeBar' = "none" /\ causeBar' = NoError /\ heldBar' = FALSE
    BY <2>1 DEF stageBar, outcomeBar, causeBar, heldBar, Visible
  <2>3. QED
    BY <1>2, <2>1, <2>2, ExitingBar DEF Run!Next, Run!Vanish, Run!vars
<1>3. QED
  BY <1>1, <1>2

(***************************************************************************)
(* The controller implements the abstract run: whatever hooks, workers and *)
(* an abort do, apart from after_worker_group_shutdown, the run closes     *)
(* once, keeps its cause, holds no workers when it finishes and reports    *)
(* one outcome.                                                            *)
(***************************************************************************)
THEOREM Refinement ==
  ASSUME "after_worker_group_shutdown" \notin FailingHooks
  PROVE  Spec => Run!Spec
<1>1. Init => RInv
  <2>1. ASSUME Init PROVE InactiveExits /\ AbortedExits /\ ShutdownHasTarget
    BY <2>1 DEF Init, HookFailure, ExecuteFailureDecision, Initializing, ShuttingDown,
       Errored, MakeState, NoGroup, InactiveExits, AbortedExits, ShutdownHasTarget
  <2>2. QED
    BY <2>1, InitIInv DEF RInv
<1>2. RInv /\ [Next]_vars => RInv'
  BY NextRInv
<1>3. RInv /\ [Next]_vars => [Run!Next]_(Run!vars)
  BY VisibleStepRefines, InterruptRefines, HiddenStepRefines
<1>4. QED
  BY <1>1, <1>2, <1>3, InitRefines, PTL DEF Spec, Run!Spec
=============================================================================

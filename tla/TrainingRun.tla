----------------------------- MODULE TrainingRun ------------------------------
(***************************************************************************)
(* What a training run promises the driver that started it, whatever the   *)
(* controller does inside: it works, with or without workers; it closes    *)
(* for one reason; it releases its workers and reports one outcome, which  *)
(* stands; or it is interrupted and never reports anything.                *)
(* ControllerRefinement shows that TrainController keeps the promise.      *)
(***************************************************************************)
CONSTANTS
  Causes,   \* the errors a run may report
  NoCause   \* none of them

VARIABLES
  stage,     \* working, closing, closed, exiting or gone
  outcome,   \* what the run is going to report: none, finished or errored
  cause,     \* the error an errored run reports
  held       \* the run holds workers

vars == <<stage, outcome, cause, held>>

Outcomes == ({"finished"} \X {NoCause}) \cup ({"errored"} \X Causes)

Init ==
  /\ held = FALSE
  /\ \/ stage = "working" /\ outcome = "none" /\ cause = NoCause
     \/ stage = "closing" /\ outcome = "errored" /\ cause \in Causes

(* Start, lose, resize or restart the workers. *)
Work ==
  /\ stage = "working"
  /\ held' \in BOOLEAN
  /\ UNCHANGED <<stage, outcome, cause>>

(* Training is over, or has failed for good. *)
Close ==
  /\ stage = "working"
  /\ stage' = "closing"
  /\ <<outcome', cause'>> \in Outcomes
  /\ held' \in BOOLEAN

Release ==
  /\ stage = "closing"
  /\ held' = FALSE
  /\ UNCHANGED <<stage, outcome, cause>>

(* A run finishes only without workers.  Failing to close turns success    *)
(* into an error, and never replaces an error.                             *)
Conclude ==
  /\ stage = "closing"
  /\ stage' = "closed"
  /\ \/ /\ outcome = "finished" => ~held
        /\ UNCHANGED <<outcome, cause>>
     \/ /\ outcome = "finished"
        /\ outcome' = "errored" /\ cause' \in Causes
  /\ UNCHANGED held

(* An abort ends the process; it does not touch a run that has closed. *)
Interrupt ==
  /\ stage \in {"working", "closing"}
  /\ stage' = "exiting"
  /\ outcome' = "none" /\ cause' = NoCause /\ held' = FALSE

Vanish ==
  /\ stage = "exiting"
  /\ stage' = "gone"
  /\ UNCHANGED <<outcome, cause, held>>

Next == Work \/ Close \/ Release \/ Conclude \/ Interrupt \/ Vanish

Spec == Init /\ [][Next]_vars

(* A run that closes does not take for ever, and an interrupted one goes.  *)
FairSpec == Spec /\ WF_vars(Conclude) /\ WF_vars(Vanish)
=============================================================================

------------------------- MODULE ControllerRefinement -------------------------
(***************************************************************************)
(* The controller implements TrainingRun.  While the actor is exiting its  *)
(* state still changes (abort() sets ABORTED, the suspended shutdown may   *)
(* then replace it), but no caller of run() sees any of it: the mapping    *)
(* hides it.                                                               *)
(***************************************************************************)
EXTENDS TrainController

stageBar ==
  CASE task = "exited" -> "gone"
    [] task # "exited" /\ exiting -> "exiting"
    [] task # "exited" /\ ~exiting /\ state.type = "SHUTTING_DOWN" -> "closing"
    [] task # "exited" /\ ~exiting /\ IsTerminal(state) -> "closed"
    [] OTHER -> "working"

(* The actor will answer the driver. *)
Visible == task # "exited" /\ ~exiting

(* It is going to report success. *)
Succeeds(s) ==
  \/ s.type = "FINISHED"
  \/ s.type = "SHUTTING_DOWN" /\ s.next = "FINISHED"

outcomeBar ==
  CASE Visible /\ Succeeds(state) -> "finished"
    [] Visible /\ GivesUp(state) -> "errored"
    [] Visible /\ state.type = "ABORTED" -> "aborted"
    [] OTHER -> "none"

causeBar == IF outcomeBar = "errored" THEN state.error ELSE NoError

heldBar == Visible /\ wg.status = "active"

Run == INSTANCE TrainingRun
  WITH Causes <- Errors, NoCause <- NoError,
       stage <- stageBar, outcome <- outcomeBar, cause <- causeBar,
       held <- heldBar

(***************************************************************************)
(* Every behaviour of the controller is one of a TrainingRun: however      *)
(* hooks, workers and an abort fail, the run closes once, for a cause that *)
(* is not replaced, holds no workers when it finishes, and reports an      *)
(* outcome that stands.                                                    *)
(***************************************************************************)
ImplementsTrainingRun == Run!FairSpec
=============================================================================

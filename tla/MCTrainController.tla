-------------------------- MODULE MCTrainController --------------------------
(* Sets of failing hooks for the model-checking runs of TrainController. *)
EXTENDS ControllerRefinement

(* Every hook but those whose failure leaves an inactive group behind. *)
AllButAfterShutdown == Hooks \ {"after_worker_group_shutdown"}

NoHooks == {}

(* No retry limit. *)
Unlimited == -1
=============================================================================

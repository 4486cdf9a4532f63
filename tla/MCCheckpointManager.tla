------------------------- MODULE MCCheckpointManager -------------------------
(* Small instances of CheckpointManager for TLC. *)
EXTENDS CheckpointManager, TLC

Symmetry == Permutations(Checkpoints)
=============================================================================

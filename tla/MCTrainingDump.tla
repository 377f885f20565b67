-------------------------- MODULE MCTrainingDump --------------------------
(* The training-data dump on a small input file. *)
EXTENDS TrainingDump
=============================================================================

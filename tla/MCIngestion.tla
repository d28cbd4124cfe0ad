----------------------------- MODULE MCIngestion -----------------------------
(* Instances of Ingestion for TLC. *)
EXTENDS Ingestion, TLC

\* The code tells tasks apart only by equality, and assets too if none is empty.
TasksAndAssetsAlike ==
    Permutations(FileTasks) \cup Permutations(IndexTasks) \cup Permutations(Assets)
==============================================================================

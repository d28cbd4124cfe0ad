---------------------------- MODULE MCThreadLocks ----------------------------
(* Instances of ThreadLocks for TLC. *)
EXTENDS ThreadLocks, TLC

\* The code tells requests, threads and workers apart only by equality.
AllAlike == Permutations(Turns) \cup Permutations(Threads) \cup Permutations(Workers)
==============================================================================

------------------------ MODULE MCMultiAgentWorkflow ------------------------
(* Instances of MultiAgentWorkflow for TLC. *)
EXTENDS MultiAgentWorkflow, TLC

\* The code only compares drafts for equality, and starts a worker on any turn.
DraftsAlike       == Permutations(Drafts)
DraftsAndWorkersAlike == Permutations(Drafts) \cup Permutations(Workers)
==============================================================================

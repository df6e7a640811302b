-------------------------- MODULE MCWorkspaceStore --------------------------
(* Model checking of the workspace store on its own, for any caller.       *)
EXTENDS WorkspaceStore, TLC

CONSTANTS w1, w2, a, b, small, large

Sizes == (small :> 2) @@ (large :> 3)

WorkspaceSymmetry == Permutations(Workspaces) \cup Permutations(TaskSets)

=============================================================================

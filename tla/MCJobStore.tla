----------------------------- MODULE MCJobStore -----------------------------
(* Model checking of the job store on its own, for any caller.             *)
EXTENDS JobStore, TLC

CONSTANTS j1, j2, j3, s1

JobSymmetry == Permutations(Jobs)

=============================================================================

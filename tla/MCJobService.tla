---------------------------- MODULE MCJobService ----------------------------
(* Model checking of the simulation service.                               *)
EXTENDS JobService

CONSTANTS j1, j2, j3, c1, c2, closer

=============================================================================

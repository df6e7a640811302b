-------------------------- MODULE MCRunCoordinator --------------------------
(* Model checking of the run coordinator over the workspace store.         *)
EXTENDS RunCoordinator

CONSTANTS w1, a, small, large

Sizes == [k \in {small, large} |-> IF k = small THEN 2 ELSE 3]
OneSize == [k \in {small} |-> 2]

=============================================================================

------------------------------ MODULE MCStudio ------------------------------
(* Tabs that show the same workspace, and contents of their editors.        *)
EXTENDS Studio

CONSTANTS t1, t2, a, b, p, q

=============================================================================

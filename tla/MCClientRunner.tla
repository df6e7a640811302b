--------------------------- MODULE MCClientRunner ---------------------------
(* Two owners of the local service: a runner and the gateway.              *)
EXTENDS ClientRunner

CONSTANT r1

=============================================================================

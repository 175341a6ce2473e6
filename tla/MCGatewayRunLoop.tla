-------------------------- MODULE MCGatewayRunLoop --------------------------
(* Model checking instances of GatewayRunLoop. *)
EXTENDS GatewayRunLoop

CONSTANTS main, e1, e2

=============================================================================

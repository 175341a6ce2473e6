--------------------------- MODULE MCDeliveryQueue ---------------------------
(* Model checking instances of DeliveryQueue. *)
EXTENDS DeliveryQueue, TLC

CONSTANTS d1, d2, r1

\* Two delays, the second longer.
Delays == <<1, 2>>
\* A plain call, one under bestEffort, and one whose entry could not be written.
CallKinds ==
  {[best |-> FALSE, observed |-> FALSE, durable |-> TRUE],
   [best |-> TRUE, observed |-> TRUE, durable |-> TRUE],
   [best |-> FALSE, observed |-> FALSE, durable |-> FALSE]}
=============================================================================

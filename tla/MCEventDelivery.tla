-------------------------- MODULE MCEventDelivery --------------------------
(* Model values for EventDelivery; the configurations give the bounds. *)
EXTENDS EventDelivery

CONSTANTS e1, e2, e3, r1, r2, c1, c2
=============================================================================

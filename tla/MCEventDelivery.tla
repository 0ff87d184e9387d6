-------------------------- MODULE MCEventDelivery --------------------------
(* The boot IDs of two boots: drawn apart, and drawn alike. *)
EXTENDS EventDelivery

FreshIds == <<101, 102>>
RepeatedIds == <<101, 101>>
=============================================================================

-------------------------- MODULE MCDeliveryLeader --------------------------
(* The tabs of one browser on a small instance. *)
EXTENDS DeliveryLeader
=============================================================================

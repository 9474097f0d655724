------------------------------ MODULE MCAlerts ------------------------------
(* A few tabs of one browser and the alerts they may raise. *)
EXTENDS Alerts
=============================================================================

------------------------------ MODULE MCAlerts ------------------------------
EXTENDS Alerts

(* The channel is told of resolutions only.                                *)
Resolutions == {"resolved"} \X Channels

(* The replicas are interchangeable: the first one leads until an event.   *)
FirstLeads == \A s \in leads' : left' < MaxEvents \/ s = CHOOSE t \in Servers : TRUE
=============================================================================

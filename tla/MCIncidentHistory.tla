------------------------- MODULE MCIncidentHistory -------------------------
(* An instance of IncidentHistory: two events of two alerts.                *)
EXTENDS IncidentHistory

CONSTANTS e1, e2, down, slow, job, api, agent

MCAlertOf == [e \in Event |-> IF e = e2 THEN slow ELSE down]
=============================================================================

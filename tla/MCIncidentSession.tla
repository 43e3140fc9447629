------------------------ MODULE MCIncidentSession ------------------------
(* A session, an incident of somebody else, and three nonces in use at once. *)
EXTENDS IncidentSession
=============================================================================

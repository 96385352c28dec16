------------------------- MODULE MCOperatorIncidents -------------------------
(* Instances of OperatorIncidents for TLC. *)
EXTENDS OperatorIncidents
=============================================================================

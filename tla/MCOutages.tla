------------------------------ MODULE MCOutages ------------------------------
(* Pi-holes with their paths for the instances of Outages. *)
EXTENDS Outages

ThreePaths == <<"pi1", "pi1", "pi2">>
=============================================================================

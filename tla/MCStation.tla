------------------------------ MODULE MCStation ------------------------------
(* StationService for TLC; modules, gateways and configurations are model   *)
(* values given in the configurations.                                      *)
EXTENDS StationService
=============================================================================

------------------------------- MODULE MCBackhaul ------------------------------
(* Detections are numbers given in the configuration. *)
EXTENDS Backhaul
================================================================================

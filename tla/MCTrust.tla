-------------------------------- MODULE MCTrust --------------------------------
(* The two registries, with two requests that the API may be handling at once. *)
EXTENDS TrustRegistry

CONSTANTS v1, h1, h2
================================================================================

----------------------------- MODULE MCModelUpdate -----------------------------
(* Two scouts, one of which the base does not have in its registry. *)
EXTENDS ModelUpdate, TLC

CONSTANTS a, b

MCRegistry == a :> Trusted
================================================================================

----------------------------- MODULE MCAutorouter -----------------------------
(***************************************************************************)
(* Autorouter for TLC: three nodes and what they can sense.                *)
(***************************************************************************)
EXTENDS Autorouter, TLC

CONSTANTS a, b, g

MCSensors == (a :> {"gps"}) @@ (b :> {"gps", "camera"}) @@ (g :> {"gps"})
=============================================================================

-------------------------------- MODULE MCScout --------------------------------
(* One peer, or none, which may pause the scout and not recall it, and the entropy of
   a belief. *)
EXTENDS Scout

CONSTANT p1, base

MCRegistry ==
  (base :> Trusted)
  @@ (p1 :> [Trusted EXCEPT !.tier = "partner", !.manifest = TRUE, !.accepts = {"PAUSE"}])

\* -p log2 p - (1-p) log2 (1-p) in percent, for p = 0.1, 0.2, ..., 0.9.
MCInfoGain == <<47, 72, 88, 97, 100, 97, 88, 72, 47>>
================================================================================

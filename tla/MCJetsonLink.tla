----------------------------- MODULE MCJetsonLink -----------------------------
(* The link with a ring of two lines. *)
EXTENDS JetsonLink
===============================================================================

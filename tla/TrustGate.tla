------------------------------- MODULE TrustGate -------------------------------
(***************************************************************************)
(* Whose commands a node obeys: SwarmState.is_command_allowed of           *)
(* olympus_brain/node.py, which _on_command asks before it does anything.  *)
(* A registry is a function from the vehicles it has entries of to         *)
(* records of a tier, a status, whether there is a manifest, and the       *)
(* commands that one accepts.                                              *)
(***************************************************************************)

\* The default of VehicleTrust
Trusted == [tier |-> "trusted", status |-> "approved", manifest |-> FALSE, accepts |-> {}]

\* An entry that is neither approved nor revoked is not held against its vehicle, and a
\* partner without a manifest may do what a trusted vehicle may.
Obeyed(entry, command) ==
  /\ entry.status # "revoked"
  /\ entry.tier # "observer"
  /\ entry.tier = "partner" /\ entry.manifest => command \in entry.accepts

IsCommandAllowed(registry, sender, command) ==
  \/ command = "EMERGENCY_STOP"
  \/ sender \in DOMAIN registry /\ Obeyed(registry[sender], command)

\* send_command keeps a command from a vehicle that has been revoked, but sends what is
\* for everybody.
Everybody == "*"
IsCommandSent(registry, target, command) ==
  \/ target = Everybody \/ command = "EMERGENCY_STOP"
  \/ target \notin DOMAIN registry
  \/ registry[target].status # "revoked"
================================================================================

----------------------------- MODULE MCCommandChain -----------------------------
(* The node has a fix, hears its neighbour, and comes close to it. *)
EXTENDS CommandChain

MCMe == <<1, 0, 0, 0, 0, 0, 0, 9>>
MCOther == <<2, 0, 0, 0, 0, 0, 0, 9>>
MCLeader == <<3, 0, 0, 0, 0, 0, 0, 9>>

MCOrders ==
  {[command |-> "GO_TO", target |-> MCMe, lat |-> 160, ttl |-> 1],
   [command |-> "RTL", target |-> MCOther, lat |-> 0, ttl |-> 0],
   [command |-> "START_SCAN", target |-> FLEET, lat |-> 0, ttl |-> 65537],
   [command |-> "EMERGENCY_STOP", target |-> MCOther, lat |-> 0, ttl |-> 1],
   [command |-> "CLEAR_OVERRIDE", target |-> MCMe, lat |-> 0, ttl |-> 0]}

Fix(eui, place, flags) ==
  [type |-> "telemetry", flags |-> flags, eui |-> eui, seq |-> 1, status |-> Status.SCANNING,
   pos_source |-> PosSource.FUSED, lat |-> place, lon |-> 0, alt |-> -1, heading |-> 35999,
   battery_pct |-> 90, pos_quality |-> 255, readings |-> <<[channel |-> 1, value |-> 20]>>,
   has_kinematics |-> TRUE, vel_n |-> -3, vel_e |-> 0, pos_std |-> 200, hdg_std |-> 5,
   ekf_flags |-> EkfFlag.GPS_USED + EkfFlag.IMU_USED]

MCReports ==
  <<Fix(MCMe, 100, 0), Fix(MCOther, 103, RELAYED),
    [type |-> "neighbors", flags |-> 0, eui |-> MCMe, seq |-> 2,
     links |-> <<[eui |-> MCOther, rssi |-> -70, range_cm |-> 300, link_quality |-> 255]>>]>>

\* What the theorems ask of the checksums holds of these frames.
ASSUME MCCommandChainAssumption == ChecksumsTell
================================================================================

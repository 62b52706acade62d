---------------------------- MODULE MissionProfile ----------------------------
(***************************************************************************)
(* olympus_brain/mission_profile.py: what an instance of the system is for.*)
(* A profile says which task a detection leads to, and what each task does *)
(* to the payload.  Payload is counted in six-hundredths of the unit of    *)
(* the profile, so that what a task takes, duration / 60 * rate * fraction,*)
(* is whole; fractions are tenths.                                         *)
(***************************************************************************)
EXTENDS Integers, Sequences, FiniteSetsExt

\* TaskExecutionParams, with payload_fraction 0 for a task that consumes none
Execution(duration, fraction, requires) ==
  [duration |-> duration, fraction |-> fraction, requires |-> requires]

CERES ==
  [capacity |-> 10, rate |-> 2,
   detectionToTask |->
     << <<"weed", "spray">>, <<"pest", "spray">>, <<"disease", "spray">>,
        <<"nutrient_deficiency", "fertilize">>, <<"irrigation_leak", "inspect">>,
        <<"crop_stress", "inspect">> >>,
   execution |->
     [spray     |-> Execution(5, 10, TRUE),  fertilize |-> Execution(5, 10, TRUE),
      seed      |-> Execution(8, 5, TRUE),   inspect   |-> Execution(10, 0, FALSE),
      sample    |-> Execution(12, 1, TRUE)]]

ATHENA ==
  [capacity |-> 100, rate |-> 5,
   detectionToTask |->
     << <<"hostile_activity", "investigate">>, <<"vehicle_detected", "photograph">>,
        <<"person_detected", "photograph">>, <<"ied_suspected", "mark">>,
        <<"structural_change", "photograph">>, <<"thermal_anomaly", "investigate">> >>,
   execution |->
     [investigate |-> Execution(15, 0, FALSE), mark  |-> Execution(5, 2, TRUE),
      photograph  |-> Execution(5, 0, FALSE),  relay |-> Execution(30, 0, FALSE)]]

VULCAN ==
  [capacity |-> 100, rate |-> 1,
   detectionToTask |->
     << <<"structural_crack", "photograph">>, <<"corrosion", "photograph">>,
        <<"thermal_anomaly", "thermal_scan">>, <<"leak_detected", "sample">>,
        <<"vegetation_encroachment", "photograph">>, <<"surface_deformation", "measure">> >>,
   execution |->
     [photograph |-> Execution(10, 0, FALSE), thermal_scan |-> Execution(12, 5, FALSE),
      measure    |-> Execution(8, 0, FALSE),  sample       |-> Execution(15, 10, TRUE)]]

HERMES ==
  [capacity |-> 5, rate |-> 5,
   detectionToTask |->
     << <<"person_detected", "drop_supplies">>, <<"thermal_signature", "investigate">>,
        <<"debris_field", "mark_location">>, <<"vehicle_wreckage", "investigate">>,
        <<"signal_detected", "investigate">> >>,
   execution |->
     [investigate   |-> Execution(15, 0, FALSE), drop_supplies |-> Execution(8, 10, TRUE),
      mark_location |-> Execution(5, 1, TRUE),   relay_comms   |-> Execution(30, 0, FALSE)]]

\* load_profile: an instance that has none gets the profile of ATHENA.
Profile(instance) ==
  CASE instance = "ceres" -> CERES
    [] instance = "vulcan" -> VULCAN
    [] instance = "hermes" -> HERMES
    [] OTHER -> ATHENA

\* task_to_detection: of the detections that lead to a task, the last one is kept.
TaskToDetection(profile, type) ==
  LET from == {i \in DOMAIN profile.detectionToTask : profile.detectionToTask[i][2] = type}
  IN  IF from = {} THEN "none" ELSE profile.detectionToTask[Max(from)][1]

NeedsPayload(profile, type) ==
  type \in DOMAIN profile.execution /\ profile.execution[type].requires

FullPayload(profile) == 600 * profile.capacity

\* What a task takes of the payload; a task the profile does not know takes nothing.
Consumption(profile, type) ==
  IF type \notin DOMAIN profile.execution THEN 0
  ELSE profile.execution[type].duration * profile.rate * profile.execution[type].fraction
===============================================================================

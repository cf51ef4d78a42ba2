---------------------------- MODULE FailureRecipes ----------------------------
(***************************************************************************)
(* Failure recipes: the symptoms that the Autoware, Nav2 and MoveIt        *)
(* plugins look for at one time of a recording (plugins/*/src/             *)
(* build-snapshot.ts, extractors.ts, failure-recipes.ts), the markers they *)
(* leave on the timeline (failure-recipes/index-recipes.ts), and the       *)
(* incidents made of those with their evidence (incidents/model.ts,        *)
(* incidents/explain.ts).                                                  *)
(*                                                                         *)
(* Scores, speeds, lengths and probabilities are in hundredths, variances  *)
(* in thousandths.  A plan runs along the axes, so that its length is a    *)
(* sum.  A view that is not there is the empty sequence.                   *)
(***************************************************************************)
EXTENDS Recording

CONSTANTS
  Step,  \* RECIPE_SAMPLE_STEP_NS
  Lead   \* how much earlier the prior perception is read

ASSUME StepAssumption == Step \in Nat \ {0}

-----------------------------------------------------------------------------
(* What a plugin reads of a message.                                       *)

Abs(x) == IF x < 0 THEN -x ELSE x

\* resolve*Topics: the first candidate that the session has.
Pick(engine, candidates) ==
  SelectSeq(candidates, LAMBDA name : \E t \in engine.topics : t.topic = name)

DecodedOf(message) == IF message = <<>> THEN <<>> ELSE message[1].decoded

Reading(engine, candidates, time) ==
  LET picked == Pick(engine, candidates)
  IN IF picked = <<>> THEN <<>> ELSE DecodedOf(MessageNear(engine, picked[1], time))

\* What is read of every topic of a profile.
Readings(engine, profile, time) ==
  [view \in DOMAIN profile |-> Reading(engine, profile[view], time)]

\* The first of the fields that a value has.
FirstOf(reading, fields) ==
  LET present == SelectSeq(fields, LAMBDA f : NumberAt(reading, f) # <<>>)
  IN IF present = <<>> THEN <<>> ELSE NumberAt(reading, present[1])

\* extractLocalizationView, extractAmclView: the variances of x and y, none being 0.
Uncertainty(reading) ==
  LET v == NumberAt(reading, "variance")
  IN IF NumberAt(reading, "pose") = <<>> THEN <<>>
     ELSE IF v = <<>> THEN <<0>> ELSE <<v[1][1] + v[1][2]>>

PlanLength(points) ==
  LET Between(k) == Abs(points[k+1][1] - points[k][1]) + Abs(points[k+1][2] - points[k][2])
                    + Abs(points[k+1][3] - points[k][3])
  IN FoldLeftDomain(LAMBDA sum, k : IF k = Len(points) THEN sum ELSE sum + Between(k), 0, points)

\* extractPlanningView, extractPlanView
Plan(reading) ==
  LET points == NumberAt(reading, "points") IN
  IF points = <<>> THEN <<>> ELSE IF points[1] = <<>> THEN <<>>
  ELSE <<[count |-> Len(points[1]), length |-> PlanLength(points[1])]>>

\* readControlError
ControlError(reading) ==
  FirstOf(reading, <<"data", "error", "lateral_error", "longitudinal_error">>)

\* extractLanelet2View
Lanelet(reading) ==
  LET bytes == NumberAt(reading, "bytes") IN
  IF bytes = <<>> THEN <<>> ELSE IF bytes[1] = 0 THEN <<>> ELSE bytes

\* extractPerceptionView: the probabilities of the objects.
Objects(reading) ==
  IF reading = <<>> THEN <<>>
  ELSE IF "objects" \in DOMAIN reading[1] THEN <<reading[1].objects>> ELSE << <<>> >>

\* extractCostmapView: a cell below 0 is unknown.
Costmap(reading) ==
  LET cells == NumberAt(reading, "cells")
  IN IF cells = <<>> THEN <<>>
     ELSE <<[unknown |-> Len(SelectSeq(cells[1], LAMBDA c : c < 0)), cells |-> Len(cells[1])]>>

\* extractControllerView: a twist that only turns has no linear speed.
LinearSpeed(reading) ==
  IF NumberAt(reading, "linear_x") # <<>> THEN NumberAt(reading, "linear_x")
  ELSE IF FirstOf(reading, <<"linear_y", "angular_z">>) # <<>> THEN <<0>> ELSE <<>>

\* extractJointStateView: joints that are only named or placed stand still.
JointSpeed(reading) ==
  LET Missing(field) == NumberAt(reading, field) \in {<<>>, << <<>> >>}
      velocities == UNION {ToSet(v) : v \in ToSet(NumberAt(reading, "velocity"))}
  IN IF \A field \in {"name", "position", "velocity"} : Missing(field) THEN <<>>
     ELSE <<Max({0} \cup {Abs(v) : v \in velocities})>>

-----------------------------------------------------------------------------
(* Snapshots.                                                              *)

AutowareTopics == [
  localization |-> <<"/localization/kinematic_state",
                     "/localization/pose_estimator/pose_with_covariance">>,
  ndt          |-> <<"/localization/pose_estimator/ndt_score",
                     "/localization/pose_estimator/scan_matching_score">>,
  planning     |-> <<"/planning/scenario_planning/trajectory", "/planning/trajectory">>,
  lateral      |-> <<"/control/trajectory_follower/lateral_error",
                     "/control/trajectory_follower/lateral/diagnostic">>,
  longitudinal |-> <<"/control/trajectory_follower/longitudinal_error",
                     "/control/trajectory_follower/longitudinal/diagnostic">>,
  command      |-> <<"/control/command/control_cmd", "/control/command/actuation_cmd", "/cmd_vel">>,
  map_vector   |-> <<"/map/vector_map", "/map/lanelet2_map">>,
  map_grid     |-> <<"/map/map", "/map/pointcloud_map", "/map/occupancy_grid">>,
  perception   |-> <<"/perception/object_recognition/objects",
                     "/perception/object_recognition/tracking/objects">> ]

\* The views, of what is read at a time, and of the perception read a while earlier.
AutowareViews(read, prior, grid) ==
  LET Nothing(objects) == objects \in {<<>>, << <<>> >>} IN
  [localization |-> Uncertainty(read.localization),
   ndt |-> FirstOf(read.ndt, <<"data", "score", "ndt_score", "value">>),
   planning |-> Plan(read.planning),
   lateral |-> ControlError(read.lateral),
   longitudinal |-> ControlError(read.longitudinal),
   command |-> NumberAt(read.command, "linear_x"),
   map |-> IF grid THEN Lanelet(read.map_vector) ELSE <<>>,
   perception |-> Objects(read.perception),
   spike |-> ~Nothing(Objects(read.perception)) /\ Nothing(Objects(prior))]

\* buildAutowareSnapshot, as far as a recipe looks at it.
AutowareSnapshot(engine, time) ==
  AutowareViews(Readings(engine, AutowareTopics, time),
                Reading(engine, AutowareTopics.perception, IF time < Lead THEN 0 ELSE time - Lead),
                Pick(engine, AutowareTopics.map_grid) # <<>>)

Nav2Topics == [
  amcl       |-> <<"/amcl_pose", "/odom">>,
  costmap    |-> <<"/global_costmap/costmap", "/local_costmap/costmap">>,
  local_plan |-> <<"/local_plan", "/transformed_global_plan">>,
  goal       |-> <<"/goal_pose">>,
  controller |-> <<"/cmd_vel">> ]

\* buildNav2Snapshot
Nav2Views(read) ==
  [amcl |-> Uncertainty(read.amcl),
   costmap |-> Costmap(read.costmap),
   local_plan |-> Plan(read.local_plan),
   goal |-> NumberAt(read.goal, "pose"),
   controller |-> LinearSpeed(read.controller)]

Nav2Snapshot(engine, time) == Nav2Views(Readings(engine, Nav2Topics, time))

MoveItTopics == [
  joints     |-> <<"/joint_states">>,
  scene      |-> <<"/monitored_planning_scene", "/planning_scene">>,
  trajectory |-> <<"/display_planned_path", "/trajectory_execution/display_planned_path">> ]

\* buildMoveItSnapshot
MoveItViews(read) ==
  [joints |-> JointSpeed(read.joints),
   scene |-> NumberAt(read.scene, "collision_objects"),
   trajectory |-> Plan(read.trajectory)]

MoveItSnapshot(engine, time) == MoveItViews(Readings(engine, MoveItTopics, time))

-----------------------------------------------------------------------------
(* Symptoms and recipes.                                                   *)

Over(view, limit)  == view # <<>> /\ view[1] > limit
Under(view, limit) == view # <<>> /\ view[1] < limit
Big(view, limit)   == view # <<>> /\ Abs(view[1]) > limit
Short(plan, limit) == plan # <<>> /\ plan[1].count > 1 /\ plan[1].length < limit

\* SYMPTOM_CHECKS.  A square root over 0.35 is a sum of two variances over 0.245.
\* A recording without both of the maps always counts as one with a stale map.
AutowareSymptoms(s) == [
  ndt_score_worsens          |-> Under(s.ndt, 120),
  covariance_grows           |-> Over(s.localization, 245),
  map_odom_stale             |-> s.map = <<>>,
  trajectory_velocity_zero   |-> Short(s.planning, 35),
  brief_perception_object    |-> s.spike \/
    (s.perception # <<>> /\ \E k \in DOMAIN s.perception[1] : s.perception[1][k] < 55),
  lateral_error_elevated     |-> Big(s.lateral, 15),
  longitudinal_error_elevated |-> Big(s.longitudinal, 12),
  command_velocity_low       |->
    s.planning # <<>> /\ s.planning[1].length > 50 /\ Under(s.command, 8) ]

Nav2Symptoms(s) == [
  local_plan_short      |-> Short(s.local_plan, 25),
  cmd_vel_stalled       |-> s.controller # <<>> /\ Abs(s.controller[1]) < 8,
  goal_active           |-> s.goal # <<>>,
  amcl_covariance_high  |-> Over(s.amcl, 245),
  costmap_unknown_heavy |->
    s.costmap # <<>> /\ 100 * s.costmap[1].unknown > 35 * s.costmap[1].cells ]

MoveItSymptoms(s) == [
  joint_velocity_high  |-> Over(s.joints, 250),
  trajectory_active    |-> s.trajectory # <<>> /\ s.trajectory[1].count > 1,
  scene_has_collisions |-> Over(s.scene, 0),
  joint_motion_idle    |-> Under(s.joints, 50) ]

Recipe(id, symptoms, least) == [id |-> id, symptoms |-> symptoms, least |-> least]

AutowareRecipes == <<
  Recipe("localization_drift", <<"ndt_score_worsens", "covariance_grows", "map_odom_stale">>, 1),
  Recipe("phantom_obstacle_stop", <<"trajectory_velocity_zero", "brief_perception_object">>, 2),
  Recipe("control_tracking_failure",
         <<"lateral_error_elevated", "longitudinal_error_elevated", "command_velocity_low">>, 2) >>

Nav2Recipes == <<
  Recipe("nav2_controller_stuck", <<"local_plan_short", "cmd_vel_stalled", "goal_active">>, 2),
  Recipe("nav2_localization_uncertainty", <<"amcl_covariance_high", "costmap_unknown_heavy">>, 2) >>

MoveItRecipes == <<
  Recipe("moveit_joint_overspeed", <<"joint_velocity_high", "trajectory_active">>, 2),
  Recipe("moveit_scene_collision", <<"scene_has_collisions", "joint_motion_idle">>, 2) >>

\* evaluateFailureRecipes: the recipe of the largest matched share, then of the
\* most matched symptoms, then the first.
Best(recipes, symptoms) ==
  LET Matched(r) == Keeping(r.symptoms, {s \in DOMAIN symptoms : symptoms[s]})
      Better(best, r) ==
        LET new == Len(Matched(r)) * Len(best[1].symptoms)
            old == Len(Matched(best[1])) * Len(r.symptoms)
        IN new > old \/ (new = old /\ Len(Matched(r)) > Len(Matched(best[1])))
      Take(best, r) ==
        IF Len(Matched(r)) < r.least THEN best
        ELSE IF best = <<>> THEN <<r>> ELSE IF Better(best, r) THEN <<r>> ELSE best
      best[i \in 0 .. Len(recipes)] ==
        IF i = 0 THEN <<>> ELSE Take(best[i - 1], recipes[i])
      found == best[Len(recipes)]
  IN IF found = <<>> THEN <<>> ELSE <<[recipe |-> found[1].id, symptoms |-> Matched(found[1])]>>

AutowareMatch(engine, time) ==
  Best(AutowareRecipes, AutowareSymptoms(AutowareSnapshot(engine, time)))

Nav2Match(engine, time) == Best(Nav2Recipes, Nav2Symptoms(Nav2Snapshot(engine, time)))

MoveItMatch(engine, time) == Best(MoveItRecipes, MoveItSymptoms(MoveItSnapshot(engine, time)))

-----------------------------------------------------------------------------
(* Markers.                                                                *)

\* evaluateFailureRecipesAtTime: one marker at most of each stack.
MarkersAt(engine, time) ==
  LET Of(stack, match) ==
        IF match = <<>> THEN <<>>
        ELSE <<[time |-> time, stack |-> stack, recipe |-> match[1].recipe,
                symptoms |-> match[1].symptoms]>>
  IN Of("autoware", AutowareMatch(engine, time)) \o Of("nav2", Nav2Match(engine, time))
     \o Of("moveit", MoveItMatch(engine, time))

Samples(engine) == (engine.end - engine.start) \div Step

\* indexFailureRecipeMarkers
RecipeMarkers(engine) ==
  LET before[k \in 0 .. Samples(engine) + 1] ==
        IF k = 0 THEN <<>>
        ELSE before[k - 1] \o MarkersAt(engine, engine.start + (k - 1) * Step)
  IN before[Samples(engine) + 1]

\* activeRecipeMarkersAt: the markers at the multiple of the step nearest to a time.
ActiveRecipeMarkersAt(all, time) ==
  LET bucket == Step * ((2 * time + Step) \div (2 * Step))
      Same(a, b) == a.stack = b.stack /\ a.recipe = b.recipe
      Add(some, m) == IF \E k \in DOMAIN some : Same(some[k], m) THEN some ELSE Append(some, m)
  IN FoldLeft(Add, <<>>, SelectSeq(all, LAMBDA m : m.time = bucket))

-----------------------------------------------------------------------------
(* Incidents.                                                              *)

\* Whether a marker continues an incident: INCIDENT_JOIN_GAP_NS.
Joins(incident, m) ==
  /\ incident.stack = m.stack /\ incident.recipe = m.recipe
  /\ m.time - incident.end <= 2 * Step

\* The markers in order of time: the sort of groupRecipeMarkers is stable.
InOrder(all) ==
  LET sorted[i \in 0 .. Len(all)] ==
        IF i = 0 THEN <<>>
        ELSE InsertAt(sorted[i - 1], Position(sorted[i - 1], all[i].time) + 1, all[i])
  IN sorted[Len(all)]

Longer(incident, time) ==
  [incident EXCEPT !.end = time, !.count = incident.count + 1]

\* A marker joins the latest incident of its recipe, or begins one.
Grouped(runs, m) ==
  LET last == SelectLastInSeq(runs, LAMBDA i : i.stack = m.stack /\ i.recipe = m.recipe)
      new  == [stack |-> m.stack, recipe |-> m.recipe, start |-> m.time, end |-> m.time,
               marker |-> m, count |-> 1]
  IN IF last = 0 THEN Append(runs, new)
     ELSE IF ~Joins(runs[last], m) THEN Append(runs, new)
     ELSE [runs EXCEPT ![last] = Longer(@, m.time)]

\* groupRecipeMarkers
GroupRecipeMarkers(all) ==
  LET sorted == InOrder(all)
      runs[i \in 0 .. Len(sorted)] == IF i = 0 THEN <<>> ELSE Grouped(runs[i - 1], sorted[i])
  IN runs[Len(sorted)]

\* findIncidentBySlug: the first incident of a recipe.
FindIncident(all, recipe) == Keeping(all, {i \in ToSet(all) : i.recipe = recipe})

\* The evidence shown for each symptom: the view it is read from.
Evidence == [
  autoware |-> << <<"ndt_score_worsens", "ndt">>, <<"covariance_grows", "localization">>,
                  <<"map_odom_stale", "map">>, <<"trajectory_velocity_zero", "planning">>,
                  <<"brief_perception_object", "perception">>,
                  <<"lateral_error_elevated", "lateral">>,
                  <<"longitudinal_error_elevated", "longitudinal">>,
                  <<"command_velocity_low", "command">> >>,
  nav2     |-> << <<"local_plan_short", "local_plan">>, <<"cmd_vel_stalled", "controller">>,
                  <<"goal_active", "goal">>, <<"amcl_covariance_high", "amcl">>,
                  <<"costmap_unknown_heavy", "costmap">> >>,
  moveit   |-> << <<"joint_velocity_high", "joints">>, <<"trajectory_active", "trajectory">>,
                  <<"scene_has_collisions", "scene">>, <<"joint_motion_idle", "joints">> >> ]

\* explainIncident: the snapshot at the marker is built again, and a fact is kept
\* for each symptom that the marker matched.
ExplainIncident(engine, marker) ==
  LET snapshot == CASE marker.stack = "autoware" -> AutowareSnapshot(engine, marker.time)
                    [] marker.stack = "nav2"     -> Nav2Snapshot(engine, marker.time)
                    [] marker.stack = "moveit"   -> MoveItSnapshot(engine, marker.time)
      every == Evidence[marker.stack]
      kept == Keeping(every, {e \in ToSet(every) : Contains(marker.symptoms, e[1])})
  IN [marker |-> marker,
      facts |-> [k \in DOMAIN kept |-> [symptom |-> kept[k][1], observed |-> snapshot[kept[k][2]]]]]
=============================================================================
